---- MODULE Spec2Model ----
(***************************************************************************)
(* json_cms: the versioned content store.                                  *)
(*                                                                         *)
(*   - ValidationService (src/src/services/validation.ts)                  *)
(*   - the local file endpoint   (src/unnamed/part_000)                    *)
(*   - the GitHub file endpoint  (src/src/pages/api/file.ts)               *)
(*   - the client GitService     (src/src/services/git.ts)                 *)
(*   - the Git endpoint          (src/src/pages/api/git/[action].ts)       *)
(*                                                                         *)
(* Three specifications share the module's variables:                      *)
(*   SpecValidate  ValidationService driven as a library                   *)
(*   Spec          the file endpoints serving concurrent requests          *)
(*   SpecGit       the Git endpoint serving concurrent requests            *)
(***************************************************************************)
EXTENDS Integers, Sequences, FiniteSets, TLC

VARIABLES
  schemas,      \* ValidationService.schemas: path key -> compiled schema
  vres,         \* SpecValidate: the last validateJson call and its outcome
  docs,         \* SpecValidate: path key -> the schema document loaded for it
  deployment,   \* which pages/api/file.ts is deployed: "local" or "github"
  githubEnv,    \* GITHUB_TOKEN, GITHUB_REPO and GITHUB_OWNER are all set
  fs,           \* local disk: absolute path -> text of the file
  dirs,         \* local disk: the directories that exist
  remote,       \* GitHub repository branch: path -> text of the blob
  reqs,         \* file endpoint: request id -> request record
  started,      \* file endpoint: number of requests started so far
  posts,        \* file endpoint: number of POST requests started and completed
  fsCalls,      \* every absolute path handed to the fs module so far
  gitReqs,      \* Git endpoint: request id -> request record
  workdir,      \* Git working tree: path -> text
  index,        \* Git staging area: path -> text
  commits,      \* Git branch history, oldest first
  origin,       \* the remote "origin": whether configured, and its history
  gitStarted,   \* Git endpoint: number of requests started so far
  contentFiles, \* generated site: file name -> text under its content directory
  apiRes,       \* generated site: the last /api/content request and its response
  version,      \* editor: which of the two editor stores the page is built with
  store,        \* editor: the state of useEditorStore
  tasks,        \* editor: call id -> the asynchronous store action and where it is
  nTasks,       \* editor: number of asynchronous store actions started so far
  disk,         \* editor: what the server holds, path -> text
  timer,        \* editor: whether the page's auto-save timeout is pending
  baseline,     \* editor: the text last loaded or saved for the current file
  ghReqs,       \* GitHub Git endpoint: request id -> request record
  ghStarted,    \* GitHub Git endpoint: number of requests started so far
  ghCommits,    \* GitHub repository: commit id -> parent and message
  ghRef,        \* GitHub repository: the commit the branch points at
  lsVersion,    \* file listing: which of the two buildFileTree the endpoint runs
  lsFiles,      \* file listing: the files under the content root
  listing       \* file listing: the answer of GET /api/files, once asked

valVars  == <<schemas, vres, docs>>
fileVars == <<deployment, githubEnv, fs, dirs, remote, reqs, started, posts, fsCalls>>
gitVars  == <<gitReqs, workdir, index, commits, origin, gitStarted>>
tplVars  == <<contentFiles, apiRes>>
edVars   == <<version, store, tasks, nTasks, disk, timer, baseline>>
ghVars   == <<ghReqs, ghStarted, ghCommits, ghRef>>
lsVars   == <<lsVersion, lsFiles, listing>>
extVars  == <<edVars, ghVars, lsVars>>
coreVars == <<valVars, fileVars, gitVars, tplVars>>
notEd    == <<coreVars, ghVars, lsVars>>
notGh    == <<coreVars, edVars, lsVars>>
notLs    == <<coreVars, edVars, ghVars>>
vars     == <<schemas, vres, docs, deployment, githubEnv, fs, dirs, remote, reqs, started,
              posts, fsCalls, gitReqs, workdir, index, commits, origin, gitStarted,
              contentFiles, apiRes, extVars>>

(***************************************************************************)
(* Bounds                                                                  *)
(***************************************************************************)
MaxStarted == 2
MaxGitStarted == 2

(***************************************************************************)
(* JSON text.  A text is a sequence of lexical tokens; a string token      *)
(* carries its characters (a string), so that lengths are computed.        *)
(***************************************************************************)
P(c)  == [t |-> "punct",  cs |-> c,   n |-> 0]
S(cs) == [t |-> "string", cs |-> cs,  n |-> 0]
N(n)  == [t |-> "number", cs |-> "",  n |-> n]
L(w)  == [t |-> "lit",    cs |-> w,   n |-> 0]
W     == [t |-> "space",  cs |-> " ", n |-> 0]

\* JavaScript values produced by JSON.parse
JStr(cs)       == [k |-> "string",  cs |-> cs,   n |-> 0, keys |-> <<>>, items |-> <<>>]
JNum(n)        == [k |-> "number",  cs |-> "",   n |-> n, keys |-> <<>>, items |-> <<>>]
JBool(w)       == [k |-> "boolean", cs |-> w, n |-> 0, keys |-> <<>>, items |-> <<>>]
JNull          == [k |-> "null",    cs |-> "",   n |-> 0, keys |-> <<>>, items |-> <<>>]
JArr(items)    == [k |-> "array",   cs |-> "",   n |-> 0, keys |-> <<>>, items |-> items]
JObj(keys, vs) == [k |-> "object",  cs |-> "",   n |-> 0, keys |-> keys, items |-> vs]
Undefined      == [k |-> "undefined", cs |-> "", n |-> 0, keys |-> <<>>, items |-> <<>>]

ParseOk(v, rest) == [ok |-> TRUE,  v |-> v,         rest |-> rest, msg |-> ""]
ParseFail(msg)   == [ok |-> FALSE, v |-> Undefined, rest |-> <<>>, msg |-> msg]

RECURSIVE SkipWs(_)
SkipWs(ts) ==
  IF ts # <<>> /\ Head(ts).t = "space" THEN SkipWs(Tail(ts)) ELSE ts

IsP(ts, c) == ts # <<>> /\ Head(ts) = P(c)

RECURSIVE ParseValue(_), ParseMembers(_, _, _), ParseElements(_, _)
ParseValue(ts0) ==
  LET ts == SkipWs(ts0) IN
  IF ts = <<>> THEN ParseFail("Unexpected end of JSON input")
  ELSE LET h == Head(ts) IN
    CASE h.t = "string" -> ParseOk(JStr(h.cs), Tail(ts))
      [] h.t = "number" -> ParseOk(JNum(h.n), Tail(ts))
      [] h.t = "lit" ->
           IF h.cs = "null" THEN ParseOk(JNull, Tail(ts))
           ELSE ParseOk(JBool(h.cs), Tail(ts))
      [] h = P("{") ->
           IF IsP(SkipWs(Tail(ts)), "}")
             THEN ParseOk(JObj(<<>>, <<>>), Tail(SkipWs(Tail(ts))))
             ELSE ParseMembers(Tail(ts), <<>>, <<>>)
      [] h = P("[") ->
           IF IsP(SkipWs(Tail(ts)), "]")
             THEN ParseOk(JArr(<<>>), Tail(SkipWs(Tail(ts))))
             ELSE ParseElements(Tail(ts), <<>>)
      [] OTHER -> ParseFail("Unexpected token")

ParseMembers(ts0, keys, vs) ==
  LET ts == SkipWs(ts0) IN
  IF ts = <<>> THEN ParseFail("Unexpected end of JSON input")
  ELSE IF Head(ts).t # "string" THEN ParseFail("Unexpected token")
  ELSE LET key == Head(ts).cs
           t1  == SkipWs(Tail(ts)) IN
    IF t1 = <<>> THEN ParseFail("Unexpected end of JSON input")
    ELSE IF ~IsP(t1, ":") THEN ParseFail("Unexpected token")
    ELSE LET r == ParseValue(Tail(t1)) IN
      IF ~r.ok THEN r
      ELSE LET t2 == SkipWs(r.rest) IN
        IF t2 = <<>> THEN ParseFail("Unexpected end of JSON input")
        ELSE IF IsP(t2, "}")
          THEN ParseOk(JObj(Append(keys, key), Append(vs, r.v)), Tail(t2))
        ELSE IF IsP(t2, ",")
          THEN ParseMembers(Tail(t2), Append(keys, key), Append(vs, r.v))
        ELSE ParseFail("Unexpected token")

ParseElements(ts0, vs) ==
  LET r == ParseValue(ts0) IN
  IF ~r.ok THEN r
  ELSE LET t2 == SkipWs(r.rest) IN
    IF t2 = <<>> THEN ParseFail("Unexpected end of JSON input")
    ELSE IF IsP(t2, "]") THEN ParseOk(JArr(Append(vs, r.v)), Tail(t2))
    ELSE IF IsP(t2, ",") THEN ParseElements(Tail(t2), Append(vs, r.v))
    ELSE ParseFail("Unexpected token")

\* JSON.parse(text): a value, or a SyntaxError carrying the parser's message
JSONparse(text) ==
  LET r == ParseValue(text) IN
  IF ~r.ok THEN r
  ELSE IF SkipWs(r.rest) # <<>> THEN ParseFail("Unexpected token")
  ELSE r

\* obj[key] of a parsed object: the last member of that name, or undefined
RECURSIVE GetFrom(_, _, _)
GetFrom(obj, key, i) ==
  IF i = 0 THEN Undefined
  ELSE IF obj.keys[i] = key THEN obj.items[i]
  ELSE GetFrom(obj, key, i - 1)

Get(obj, key) ==
  IF obj.k = "object" THEN GetFrom(obj, key, Len(obj.keys)) ELSE Undefined

Has(obj, key) == Get(obj, key) # Undefined

(***************************************************************************)
(* ValidationService                                                       *)
(***************************************************************************)
\* A compiled zod type.  subs are the item type of an array (one) or the
\* property types of an object; opts[i] marks property i as .optional().
ZAny == [z |-> "any", hasMin |-> FALSE, min |-> 0, hasMax |-> FALSE, max |-> 0,
         keys |-> <<>>, subs |-> <<>>, opts |-> <<>>]

ZPrim(z, schema, minKey, maxKey) ==
  [ZAny EXCEPT !.z = z,
     !.hasMin = Has(schema, minKey), !.min = Get(schema, minKey).n,
     !.hasMax = Has(schema, maxKey), !.max = Get(schema, maxKey).n]

\* JavaScript truthiness, as in schema.properties || {}
Truthy(v) ==
  /\ v.k \notin {"undefined", "null"}
  /\ ~(v.k = "boolean" /\ v.cs = "false")
  /\ ~(v.k = "number" /\ v.n = 0)
  /\ ~(v.k = "string" /\ v.cs = "")

\* required.includes(key)
Includes(arr, key) ==
  arr.k = "array" /\ \E i \in 1..Len(arr.items) : arr.items[i] = JStr(key)

RECURSIVE jsonSchemaToZod(_)
jsonSchemaToZod(schema) ==
  IF schema.k # "object" THEN ZAny
  ELSE LET ty == Get(schema, "type") IN
    CASE ty = JStr("string")  -> ZPrim("string", schema, "minLength", "maxLength")
      [] ty = JStr("number")  -> ZPrim("number", schema, "minimum", "maximum")
      [] ty = JStr("integer") -> ZPrim("integer", schema, "minimum", "maximum")
      [] ty = JStr("boolean") -> [ZAny EXCEPT !.z = "boolean"]
      [] ty = JStr("array") ->
           [ZPrim("array", schema, "minItems", "maxItems") EXCEPT
              !.subs = << IF Truthy(Get(schema, "items"))
                            THEN jsonSchemaToZod(Get(schema, "items"))
                            ELSE ZAny >>]
      [] ty = JStr("object") ->
           LET properties == IF Truthy(Get(schema, "properties"))
                               THEN Get(schema, "properties") ELSE JObj(<<>>, <<>>)
               required   == IF Truthy(Get(schema, "required"))
                               THEN Get(schema, "required") ELSE JArr(<<>>)
           IN [ZAny EXCEPT
                 !.z = "object",
                 !.keys = properties.keys,
                 !.subs = [i \in 1..Len(properties.keys) |->
                             jsonSchemaToZod(properties.items[i])],
                 !.opts = [i \in 1..Len(properties.keys) |->
                             ~Includes(required, properties.keys[i])]]
      [] OTHER -> ZAny

\* loadSchemaFromJson(schemaJson); a SyntaxError of JSON.parse propagates
loadSchemaFromJson(schemaJson) == jsonSchemaToZod(JSONparse(schemaJson).v)

\* zod issues; a location is a sequence of property names and array indices
PK(key) == [key |-> key, idx |-> -1]
PI(i)   == [key |-> "",  idx |-> i]
Issue(code, path, message) == [code |-> code, path |-> path, message |-> message]

InvalidType(v, path) ==
  << Issue("invalid_type", path, IF v = Undefined THEN "Required" ELSE "Expected") >>

\* Joining that stops at the first part with an issue in it
RECURSIVE Concat_FirstFailure(_)
Concat_FirstFailure(ss) ==
  IF ss = <<>> THEN <<>>
  ELSE IF Head(ss) # <<>> THEN Head(ss)
  ELSE Concat_FirstFailure(Tail(ss))

RECURSIVE Concat(_)
Concat(ss) == IF ss = <<>> THEN <<>> ELSE Head(ss) \o Concat(Tail(ss))

\* schema.parseAsync(jsonData): the issues of v against zod type z, in order
RECURSIVE Check(_, _, _, _)
Check(z, optional, v, path) ==
  IF optional /\ v = Undefined THEN <<>>
  ELSE CASE z.z = "any" -> <<>>
    [] z.z = "string" ->
         IF v.k # "string" THEN InvalidType(v, path)
         ELSE (IF z.hasMin /\ Len(v.cs) < z.min
                 THEN << Issue("too_small", path, "String too short") >> ELSE <<>>)
           \o (IF z.hasMax /\ Len(v.cs) > z.max
                 THEN << Issue("too_big", path, "String too long") >> ELSE <<>>)
    [] z.z \in {"number", "integer"} ->
         IF v.k # "number" THEN InvalidType(v, path)
         ELSE (IF z.hasMin /\ v.n < z.min
                 THEN << Issue("too_small", path, "Number too small") >> ELSE <<>>)
           \o (IF z.hasMax /\ v.n > z.max
                 THEN << Issue("too_big", path, "Number too big") >> ELSE <<>>)
    [] z.z = "boolean" ->
         IF v.k # "boolean" THEN InvalidType(v, path) ELSE <<>>
    [] z.z = "array" ->
         IF v.k # "array" THEN InvalidType(v, path)
         ELSE (IF z.hasMin /\ Len(v.items) < z.min
                 THEN << Issue("too_small", path, "Array too short") >> ELSE <<>>)
           \o (IF z.hasMax /\ Len(v.items) > z.max
                 THEN << Issue("too_big", path, "Array too long") >> ELSE <<>>)
           \o Concat([i \in 1..Len(v.items) |->
                        Check(z.subs[1], FALSE, v.items[i], Append(path, PI(i - 1)))])
    [] z.z = "object" ->
         IF v.k # "object" THEN InvalidType(v, path)
         ELSE Concat([i \in 1..Len(z.keys) |->
                        Check(z.subs[i], z.opts[i], Get(v, z.keys[i]),
                              Append(path, PK(z.keys[i])))])

Valid == [ok |-> TRUE, message |-> "", errors |-> <<>>, schemaRun |-> FALSE]

\* validateJson with the schema looked up before the text is parsed
validateJson_SchemaFirst(sch, path, content) ==
  LET parsed == JSONparse(content) IN
  IF path \in DOMAIN sch
    THEN LET issues == Check(sch[path], FALSE,
                             IF parsed.ok THEN parsed.v ELSE Undefined, <<>>) IN
         IF issues = <<>> THEN [Valid EXCEPT !.schemaRun = TRUE]
         ELSE [ok |-> FALSE, message |-> "Schema validation failed",
               errors |-> issues, schemaRun |-> TRUE]
  ELSE IF ~parsed.ok
    THEN [ok |-> FALSE, message |-> "Invalid JSON",
          errors |-> << Issue("custom", <<>>, parsed.msg) >>, schemaRun |-> FALSE]
  ELSE Valid

\* ValidationService.validateJson(path, content) against the schemas map sch:
\* true, or the ValidationError thrown.  schemaRun: schema.parseAsync was called.
validateJson(sch, path, content) ==
  LET parsed == JSONparse(content) IN
  IF ~parsed.ok
    THEN [ok |-> FALSE, message |-> "Invalid JSON",
          errors |-> << Issue("custom", <<>>, parsed.msg) >>, schemaRun |-> FALSE]
  ELSE IF path \notin DOMAIN sch THEN Valid
  ELSE LET issues == Check(sch[path], FALSE, parsed.v, <<>>) IN
    IF issues = <<>> THEN [Valid EXCEPT !.schemaRun = TRUE]
    ELSE [ok |-> FALSE, message |-> "Schema validation failed",
          errors |-> issues, schemaRun |-> TRUE]

\* registerSchema(path, schema): this.schemas.set(path, schema)
registerSchema(sch, path, schema) ==
  [k \in DOMAIN sch \cup {path} |-> IF k = path THEN schema ELSE sch[k]]

(***************************************************************************)
(* Texts and schema documents the model draws its inputs from              *)
(***************************************************************************)
TOpen     == << P("{") >>
TEmptyObj == << P("{"), P("}") >>
TSpaced   == << P("{"), W, P("}") >>
TTitleX   == << P("{"), S("title"), P(":"), S("x"), P("}") >>
TTitleE   == << P("{"), S("title"), P(":"), S(""), P("}") >>
TTitleNum == << P("{"), S("title"), P(":"), N(1), P("}") >>
TTrailing == << P("{"), S("title"), P(":"), S("x"), P(","), P("}") >>
TList     == << P("["), N(1), P(","), N(0), P("]") >>
TNull     == << L("null") >>
TTrue     == << L("true") >>
TNothing  == << >>
TFalse    == << L("false") >>
TZero     == << N(0) >>
TEmptyStr == << S("") >>
TZeros    == << P("["), N(0), P(","), N(0), P("]") >>
TStrXX    == << S("xx") >>
\* {"title":"","count":0,"tags":[0,2]}
TPostBad  == << P("{"), S("title"), P(":"), S(""), P(","), S("count"), P(":"), N(0),
                P(","), S("tags"), P(":"), P("["), N(0), P(","), N(2), P("]"), P("}") >>

Texts == {TOpen, TEmptyObj, TSpaced, TTitleX, TTitleE, TTitleNum, TTrailing,
          TList, TNull, TTrue, TNothing, TFalse, TZero, TEmptyStr,
          TZeros, TStrXX, TPostBad}

\* {"type":"object","required":["title"],
\*  "properties":{"title":{"type":"string","minLength":1}}}
TitleSchemaDoc ==
  << P("{"), S("type"), P(":"), S("object"), P(","),
     S("required"), P(":"), P("["), S("title"), P("]"), P(","),
     S("properties"), P(":"), P("{"),
       S("title"), P(":"), P("{"), S("type"), P(":"), S("string"), P(","),
                                S("minLength"), P(":"), N(1), P("}"),
     P("}"), P("}") >>

\* {"type":"array","minItems":1,"items":{"type":"number","minimum":1}}
ListSchemaDoc ==
  << P("{"), S("type"), P(":"), S("array"), P(","),
     S("minItems"), P(":"), N(1), P(","),
     S("items"), P(":"), P("{"), S("type"), P(":"), S("number"), P(","),
                              S("minimum"), P(":"), N(1), P("}"),
     P("}") >>

\* {} : no type
AnySchemaDoc == << P("{"), P("}") >>

\* {"type":"object","required":["title","count"],
\*  "properties":{"title":{"type":"string","minLength":1},
\*                "count":{"type":"number","minimum":1},
\*                "tags":{"type":"array","minItems":3,"items":{"type":"number","minimum":1}}}}
PostSchemaDoc ==
  << P("{"), S("type"), P(":"), S("object"), P(","),
     S("required"), P(":"), P("["), S("title"), P(","), S("count"), P("]"), P(","),
     S("properties"), P(":"), P("{"),
       S("title"), P(":"), P("{"), S("type"), P(":"), S("string"), P(","),
                                S("minLength"), P(":"), N(1), P("}"), P(","),
       S("count"), P(":"), P("{"), S("type"), P(":"), S("number"), P(","),
                                S("minimum"), P(":"), N(1), P("}"), P(","),
       S("tags"), P(":"), P("{"), S("type"), P(":"), S("array"), P(","),
                               S("minItems"), P(":"), N(3), P(","),
                               S("items"), P(":"), P("{"), S("type"), P(":"), S("number"),
                                 P(","), S("minimum"), P(":"), N(1), P("}"), P("}"),
     P("}"), P("}") >>

\* {"type":"string","minLength":3,"maxLength":1}
NarrowSchemaDoc ==
  << P("{"), S("type"), P(":"), S("string"), P(","),
     S("minLength"), P(":"), N(3), P(","), S("maxLength"), P(":"), N(1), P("}") >>

SchemaDocs == {TitleSchemaDoc, ListSchemaDoc, AnySchemaDoc, PostSchemaDoc,
               NarrowSchemaDoc}

(***************************************************************************)
(* SpecValidate: ValidationService driven as a library                     *)
(***************************************************************************)
ValPaths == {<<"a.json">>, <<"b.json">>}

NoCall == [called |-> FALSE, path |-> <<>>, content |-> <<>>, out |-> Valid,
           bound |-> FALSE, doc |-> <<>>]

ValIdle == schemas = <<>> /\ vres = NoCall /\ docs = <<>>

RegisterSchema ==
  \E path \in ValPaths, doc \in SchemaDocs :
    /\ JSONparse(doc).ok
    /\ schemas' = registerSchema(schemas, path, loadSchemaFromJson(doc))
    /\ docs' = [k \in DOMAIN docs \cup {path} |-> IF k = path THEN doc ELSE docs[k]]
    /\ UNCHANGED <<vres, fileVars, gitVars, tplVars, extVars>>

ValidateJson ==
  \E path \in ValPaths, content \in Texts :
    /\ vres' = [called |-> TRUE, path |-> path, content |-> content,
                out |-> validateJson(schemas, path, content),
                bound |-> path \in DOMAIN schemas,
                doc |-> IF path \in DOMAIN docs THEN docs[path] ELSE <<>>]
    /\ UNCHANGED <<schemas, docs, fileVars, gitVars, tplVars, extVars>>

(***************************************************************************)
(* Paths.  A request path is a sequence of tokens, "/" or a segment name;  *)
(* an absolute path is the sequence of its segment names from the root.    *)
(***************************************************************************)
Cwd        == <<"app">>
ContentDir == Cwd \o <<"content">>

RECURSIVE Normalize(_, _)
Normalize(tokens, acc) ==
  IF tokens = <<>> THEN acc
  ELSE LET h == Head(tokens) IN
    IF h \in {"/", "."} THEN Normalize(Tail(tokens), acc)
    ELSE IF h = ".."
      THEN Normalize(Tail(tokens),
                     IF acc = <<>> THEN <<>> ELSE SubSeq(acc, 1, Len(acc) - 1))
    ELSE Normalize(Tail(tokens), Append(acc, h))

\* path.join(base, relativePath) for an absolute, normalized base
pathJoin(base, relativePath) == Normalize(relativePath, base)

getFullPath(relativePath) == pathJoin(ContentDir, relativePath)

dirname(abs) == IF abs = <<>> THEN <<>> ELSE SubSeq(abs, 1, Len(abs) - 1)

RECURSIVE StripSlashes(_)
StripSlashes(p) ==
  IF p # <<>> /\ Head(p) = "/" THEN StripSlashes(Tail(p)) ELSE p

\* GitService.ensureContentPath:
\*   filePath.replace(/^content\//, "").replace(/^\/+/, "")
ensureContentPath(filePath) ==
  StripSlashes(IF Len(filePath) >= 2 /\ filePath[1] = "content" /\ filePath[2] = "/"
                 THEN SubSeq(filePath, 3, Len(filePath))
                 ELSE filePath)

UnderContentDir(abs) ==
  Len(abs) > Len(ContentDir) /\ SubSeq(abs, 1, Len(ContentDir)) = ContentDir

\* mkdir(dir, {recursive: true}) creates dir and every missing ancestor
Ancestors(dir) == {SubSeq(dir, 1, n) : n \in 1..Len(dir)}

\* The file paths the editor asks for
PA        == <<"a.json">>
PContentA == <<"content", "/", "a.json">>
PSlashCA  == <<"/", "content", "/", "a.json">>
PEscape   == <<"..", "/", "..", "/", "etc", "/", "passwd">>

ReqPaths == {PContentA, PSlashCA, PEscape}
ReqTexts == {TOpen, TEmptyObj, TTitleX}

\* What the editor saves: any text to a content file, a document to the rest
Saves == ({PContentA, PSlashCA} \X ReqTexts) \cup {<<PEscape, TTitleX>>}

FileA      == ContentDir \o <<"a.json">>
SchemaA    == ContentDir \o <<"schema", "a.schema.json">>
EtcPasswd  == <<"etc", "passwd">>

(***************************************************************************)
(* The file endpoint: requests, disk and GitHub repository                 *)
(***************************************************************************)
\* One slot per request, in order of arrival
Slots == 1..MaxStarted

NoSha == [has |-> FALSE, of |-> <<>>]

IdleReq ==
  [pc |-> "idle", kind |-> "", raw |-> <<>>, path |-> <<>>, content |-> <<>>,
   status |-> 0, error |-> "", details |-> <<>>, body |-> <<>>, seen |-> <<>>,
   sha |-> NoSha, wroteFs |-> FALSE, remoteCalls |-> 0, remoteFailed |-> FALSE,
   remoteWritten |-> FALSE,
   postsAtStart |-> 0, doneAtStart |-> 0, postsAtEnd |-> 0]

\* The slot of the next request to arrive
FreeSlot(s) == s = started + 1

NewReq(kind, raw, content) ==
  [IdleReq EXCEPT !.kind = kind, !.raw = raw, !.path = ensureContentPath(raw),
                  !.content = content,
                  !.postsAtStart = posts.started + (IF kind = "POST" THEN 1 ELSE 0),
                  !.doneAtStart = posts.done]

\* res.status(status).json(...): the handler's response
Respond(r, status, error, details, body) ==
  [r EXCEPT !.pc = "done", !.status = status, !.error = error,
            !.details = details, !.body = body, !.postsAtEnd = posts.started]

PostDone(r) == [posts EXCEPT !.done = @ + (IF r.kind = "POST" THEN 1 ELSE 0)]

\* ensureContentDirectory(): existsSync, then mkdirSync when absent
ensureContentDirectory(d) == d \cup Ancestors(ContentDir)

FileInit ==
  /\ deployment \in {"local", "github"}
  /\ githubEnv \in BOOLEAN
  /\ \E seeded \in BOOLEAN :
       /\ fs = IF seeded
                 THEN (FileA :> TTitleX) @@ (SchemaA :> TitleSchemaDoc)
                      @@ (EtcPasswd :> TOpen)
                 ELSE (EtcPasswd :> TOpen)
       /\ dirs = {<<"etc">>} \cup
                 (IF seeded THEN Ancestors(dirname(SchemaA)) ELSE {Cwd})
  /\ remote \in IF githubEnv THEN {<<>>, (PA :> TTitleX)} ELSE {<<>>}
  /\ reqs = [s \in Slots |-> IdleReq]
  /\ started = 0
  /\ posts = [started |-> 0, done |-> 0]
  /\ fsCalls = {}

FileIdle ==
  /\ deployment = "local" /\ githubEnv = FALSE
  /\ fs = <<>> /\ dirs = {} /\ remote = <<>>
  /\ reqs = [s \in Slots |-> IdleReq]
  /\ started = 0 /\ posts = [started |-> 0, done |-> 0] /\ fsCalls = {}

(* ---- src/unnamed/part_000: the local endpoint ---- *)

\* GET, up to the first await: getFullPath, existsSync
LocalGetStart(s, raw) ==
  LET r0   == NewReq("GET", raw, <<>>)
      full == getFullPath(r0.path)
  IN /\ reqs' = [reqs EXCEPT ![s] =
                   IF r0.path = <<>>
                     THEN Respond(r0, 400, "Invalid request", <<>>, <<>>)
                   ELSE IF full \notin DOMAIN fs /\ full \notin dirs
                     THEN Respond(r0, 404, "File not found", <<>>, <<>>)
                   ELSE [r0 EXCEPT !.pc = "read"]]
     /\ fsCalls' = IF r0.path = <<>> THEN fsCalls ELSE fsCalls \cup {full}
     /\ UNCHANGED <<fs, dirs, remote, posts>>

\* readJsonFile: readFile, then JSON.parse of what was read
readJsonFile(r, full) ==
  IF full \notin DOMAIN fs
    THEN Respond(r, 500, "Internal server error", <<>>, <<>>)
  ELSE LET content == fs[full]
           parsed  == JSONparse(content)
       IN IF ~parsed.ok
            THEN Respond([r EXCEPT !.seen = content], 400, "Invalid JSON file",
                         << Issue("invalid_json", <<>>, parsed.msg) >>, <<>>)
            ELSE Respond([r EXCEPT !.seen = content], 200, "", <<>>, content)

LocalRead(s) ==
  /\ deployment = "local" /\ reqs[s].pc = "read"
  /\ reqs' = [reqs EXCEPT ![s] = readJsonFile(reqs[s], getFullPath(reqs[s].path))]
  /\ fsCalls' = fsCalls \cup {getFullPath(reqs[s].path)}
  /\ UNCHANGED <<fs, dirs, remote, posts, started, deployment, githubEnv>>
  /\ UNCHANGED <<valVars, tplVars, gitVars, extVars>>

\* POST, up to the first fs await: ensureContentDirectory, then validateJson
LocalPostStart(s, raw, content) ==
  LET r0   == NewReq("POST", raw, content)
      full == getFullPath(r0.path)
      made == ensureContentDirectory(dirs) # dirs
      v    == validateJson(schemas, full, content)
      r1   == [r0 EXCEPT !.wroteFs = made]
  IN IF r0.path = <<>>
       THEN /\ reqs' = [reqs EXCEPT ![s] =
                          Respond(r0, 400, "Invalid request", <<>>, <<>>)]
            /\ posts' = [started |-> posts.started + 1, done |-> posts.done + 1]
            /\ UNCHANGED <<fs, dirs, remote, fsCalls>>
       ELSE /\ dirs' = ensureContentDirectory(dirs)
            /\ fsCalls' = fsCalls \cup {ContentDir}
            /\ reqs' = [reqs EXCEPT ![s] =
                          IF v.ok THEN [r1 EXCEPT !.pc = "mkdir"]
                          ELSE Respond(r1, 400, v.message, v.errors, <<>>)]
            /\ posts' = [started |-> posts.started + 1,
                         done |-> posts.done + (IF v.ok THEN 0 ELSE 1)]
            /\ UNCHANGED <<fs, remote>>

\* writeJsonFile: await fs.promises.mkdir(dir, { recursive: true })
LocalMkdir(s) ==
  LET r    == reqs[s]
      dir  == dirname(getFullPath(r.path))
      fail == \E a \in Ancestors(dir) : a \in DOMAIN fs
  IN /\ deployment = "local" /\ r.pc = "mkdir"
     /\ fsCalls' = fsCalls \cup {dir}
     /\ IF fail
          THEN /\ reqs' = [reqs EXCEPT ![s] =
                             Respond(r, 500, "Internal server error", <<>>, <<>>)]
               /\ posts' = PostDone(r)
               /\ UNCHANGED dirs
          ELSE /\ reqs' = [reqs EXCEPT ![s] =
                             [r EXCEPT !.pc = "open",
                                       !.wroteFs = @ \/ (dirs \cup Ancestors(dir) # dirs)]]
               /\ dirs' = dirs \cup Ancestors(dir)
               /\ UNCHANGED posts
     /\ UNCHANGED <<fs, remote, started, deployment, githubEnv, valVars, tplVars, gitVars, extVars>>

\* fs.promises.writeFile, first half: open(path, "w") creates or truncates
LocalOpen(s) ==
  LET r    == reqs[s]
      full == getFullPath(r.path)
  IN /\ deployment = "local" /\ r.pc = "open"
     /\ fsCalls' = fsCalls \cup {full}
     /\ IF full \in dirs
          THEN /\ reqs' = [reqs EXCEPT ![s] =
                             Respond(r, 500, "Internal server error", <<>>, <<>>)]
               /\ posts' = PostDone(r)
               /\ UNCHANGED fs
          ELSE /\ reqs' = [reqs EXCEPT ![s] = [r EXCEPT !.pc = "write", !.wroteFs = TRUE]]
               /\ fs' = [p \in DOMAIN fs \cup {full} |-> IF p = full THEN <<>> ELSE fs[p]]
               /\ UNCHANGED posts
     /\ UNCHANGED <<dirs, remote, started, deployment, githubEnv, valVars, tplVars, gitVars, extVars>>

\* What a write of data at offset 0 leaves in a file that holds old
Overlay(old, data) ==
  data \o (IF Len(old) > Len(data) THEN SubSeq(old, Len(data) + 1, Len(old)) ELSE <<>>)

\* fs.promises.writeFile, second half: write the data, close, respond 200
LocalWrite(s) ==
  LET r    == reqs[s]
      full == getFullPath(r.path)
  IN /\ deployment = "local" /\ r.pc = "write"
     /\ fs' = [fs EXCEPT ![full] = Overlay(fs[full], r.content)]
     /\ reqs' = [reqs EXCEPT ![s] = Respond(r, 200, "", <<>>, r.content)]
     /\ posts' = PostDone(r)
     /\ UNCHANGED <<dirs, remote, started, fsCalls, deployment, githubEnv>>
     /\ UNCHANGED <<valVars, tplVars, gitVars, extVars>>

(* ---- src/src/pages/api/file.ts: the GitHub endpoint ---- *)

\* How a request to api.github.com ends: answered, no connection, or 401
Net == {"ok", "unreachable", "unauthorized"}

Called(r, net) ==
  [r EXCEPT !.remoteCalls = @ + 1, !.remoteFailed = @ \/ net # "ok"]

ServerError(r, message) ==
  Respond(r, 500, "Internal server error", << Issue("", <<>>, message) >>, <<>>)

\* GET, up to the fetch: the configuration check of readFromGitHub
GithubGetStart(s, raw) ==
  LET r0 == NewReq("GET", raw, <<>>)
  IN /\ reqs' = [reqs EXCEPT ![s] =
                   IF r0.path = <<>>
                     THEN Respond(r0, 400, "Invalid request", <<>>, <<>>)
                   ELSE IF ~githubEnv
                     THEN ServerError(r0, "GitHub configuration is missing")
                   ELSE [r0 EXCEPT !.pc = "fetch"]]
     /\ UNCHANGED <<fs, dirs, remote, posts, fsCalls>>

\* readFromGitHub's fetch and the handler's JSON.parse of the text
readFromGitHub(r, net) ==
  LET r1 == Called(r, net) IN
  IF net = "unreachable" THEN ServerError(r1, "fetch failed")
  ELSE IF net = "unauthorized" THEN ServerError(r1, "GitHub API error: Unauthorized")
  ELSE IF r.path \notin DOMAIN remote THEN ServerError(r1, "File not found")
  ELSE LET content == remote[r.path]
           parsed  == JSONparse(content)
       IN IF ~parsed.ok THEN ServerError([r1 EXCEPT !.seen = content], parsed.msg)
          ELSE Respond([r1 EXCEPT !.seen = content], 200, "", <<>>, content)

GithubFetch(s) ==
  \E net \in Net :
    /\ deployment = "github" /\ reqs[s].pc = "fetch"
    /\ reqs' = [reqs EXCEPT ![s] = readFromGitHub(reqs[s], net)]
    /\ UNCHANGED <<fs, dirs, remote, posts, started, fsCalls, deployment, githubEnv>>
    /\ UNCHANGED <<valVars, tplVars, gitVars, extVars>>

\* POST, up to the first fetch: validateJson, then writeToGitHub's configuration check
GithubPostStart(s, raw, content) ==
  LET r0 == NewReq("POST", raw, content)
      v  == validateJson(schemas, r0.path, content)
      r1 == IF r0.path = <<>> THEN Respond(r0, 400, "Invalid request", <<>>, <<>>)
            ELSE IF ~v.ok THEN Respond(r0, 400, v.message, v.errors, <<>>)
            ELSE IF ~githubEnv THEN ServerError(r0, "GitHub configuration is missing")
            ELSE [r0 EXCEPT !.pc = "getSha"]
  IN /\ reqs' = [reqs EXCEPT ![s] = r1]
     /\ posts' = [started |-> posts.started + 1,
                  done |-> posts.done + (IF r1.pc = "done" THEN 1 ELSE 0)]
     /\ UNCHANGED <<fs, dirs, remote, fsCalls>>

\* writeToGitHub: the GET of the current file, for its sha
GithubGetSha(s) ==
  \E net \in Net :
    LET r  == reqs[s]
        r1 == Called(r, net)
    IN /\ deployment = "github" /\ r.pc = "getSha"
       /\ reqs' = [reqs EXCEPT ![s] =
                     IF net = "unreachable" THEN ServerError(r1, "fetch failed")
                     ELSE IF net = "ok" /\ r.path \in DOMAIN remote
                       THEN [r1 EXCEPT !.pc = "put",
                                       !.sha = [has |-> TRUE, of |-> remote[r.path]]]
                     ELSE [r1 EXCEPT !.pc = "put"]]
       /\ posts' = IF net = "unreachable" THEN PostDone(r) ELSE posts
       /\ UNCHANGED <<fs, dirs, remote, started, fsCalls, deployment, githubEnv>>
       /\ UNCHANGED <<valVars, tplVars, gitVars, extVars>>

\* GitHub's answer to PUT /contents/{path}: the sha must name the blob the
\* branch holds, and be absent when the branch holds none
PutAccepted(path, sha) ==
  IF path \in DOMAIN remote
    THEN sha.has /\ sha.of = remote[path]
    ELSE ~sha.has

\* writeToGitHub: the PUT, and the handler's response
GithubPut(s) ==
  \E net \in Net :
    LET r  == reqs[s]
        r1 == Called(r, net)
        ok == net = "ok" /\ PutAccepted(r.path, r.sha)
    IN /\ deployment = "github" /\ r.pc = "put"
       /\ reqs' = [reqs EXCEPT ![s] =
                     IF net = "unreachable" THEN ServerError(r1, "fetch failed")
                     ELSE IF net = "unauthorized"
                       THEN ServerError(r1, "GitHub API error: Unauthorized")
                     ELSE IF ~ok
                       THEN ServerError(r1,
                                        IF r.sha.has
                                          THEN "GitHub API error: Conflict"
                                          ELSE "GitHub API error: Unprocessable Entity")
                     ELSE Respond([r1 EXCEPT !.remoteWritten = TRUE],
                                  200, "", <<>>, r.content)]
       /\ remote' = IF ok
                      THEN [p \in DOMAIN remote \cup {r.path} |->
                              IF p = r.path THEN r.content ELSE remote[p]]
                      ELSE remote
       /\ posts' = PostDone(r)
       /\ UNCHANGED <<fs, dirs, started, fsCalls, deployment, githubEnv>>
       /\ UNCHANGED <<valVars, tplVars, gitVars, extVars>>

(* ---- src/src/services/git.ts: the editor's requests ---- *)

\* GitService.readFile(filePath): GET /api/file?path=ensureContentPath(filePath)
ReadFile ==
  \E s \in Slots, raw \in ReqPaths :
    /\ FreeSlot(s) /\ started < MaxStarted
    /\ started' = started + 1
    /\ \/ deployment = "local" /\ LocalGetStart(s, raw)
       \/ deployment = "github" /\ GithubGetStart(s, raw)
    /\ UNCHANGED <<deployment, githubEnv, valVars, tplVars, gitVars, extVars>>

\* GitService.saveFile(filePath, content): POST /api/file
SaveFile ==
  \E s \in Slots, save \in Saves :
    /\ FreeSlot(s) /\ started < MaxStarted
    /\ started' = started + 1
    /\ \/ deployment = "local" /\ LocalPostStart(s, save[1], save[2])
       \/ deployment = "github" /\ GithubPostStart(s, save[1], save[2])
    /\ UNCHANGED <<deployment, githubEnv, valVars, tplVars, gitVars, extVars>>

\* new GitError(message, code): what a GitService method throws
GitError(code) == [ok |-> FALSE, name |-> "GitError", code |-> code]

\* A GitService method that returned
Resolved == [ok |-> TRUE, name |-> "", code |-> ""]

\* GitService.readFile: every failure of the request is rethrown as READ_ERROR
readFile(r) == IF r.status = 200 THEN Resolved ELSE GitError("READ_ERROR")

\* GitService.saveFile: every failure of the request is rethrown as SAVE_ERROR
saveFile(r) == IF r.status = 200 THEN Resolved ELSE GitError("SAVE_ERROR")

\* GitService.commitChanges, getHistory, revertChanges: the same wrapping
commitChanges(r) == IF r.status = 200 THEN Resolved ELSE GitError("COMMIT_ERROR")

getHistory(r) == IF r.status = 200 THEN Resolved ELSE GitError("HISTORY_ERROR")

revertChanges(r) == IF r.status = 200 THEN Resolved ELSE GitError("REVERT_ERROR")

(***************************************************************************)
(* The Git endpoint                                                        *)
(***************************************************************************)
(* ---- src/src/pages/api/git/[action].ts ---- *)

\* One slot per request, in order of arrival
GitSlots == 1..MaxGitStarted

GitPaths == {"a.json", "b.json"}

\* What the editor writes into the working tree
Edits == {<<"a.json", "v1">>, <<"a.json", "v2">>, <<"b.json", "v1">>}

\* What the editor reverts: a path, and the commit to take it from
Reverts == {<<"a.json", 0>>, <<"a.json", 1>>, <<"b.json", 0>>}

\* Commit messages the editor sends: empty, blank, and a real one
Messages == {"", " ", "Update"}

\* A tree maps the paths it holds to their text
Tree0 == [p \in {"a.json"} |-> "v1"]
Tree1 == [p \in {"a.json"} |-> "v2"]

\* getGitConfig() with no user.name and user.email configured: the defaults
getGitConfig == [name |-> "JSON CMS", email |-> "json-cms@example.com"]

Commit0 == [tree |-> Tree0, message |-> "init", author |-> "dev"]
Commit1 == [tree |-> Tree1, message |-> "theirs", author |-> "dev"]

HeadTree == commits[Len(commits)].tree

IsPrefix(a, b) == Len(a) <= Len(b) /\ SubSeq(b, 1, Len(a)) = a

GitIdleReq ==
  [pc |-> "idle", action |-> "", message |-> "", path |-> "", ref |-> 0,
   status |-> 0, code |-> "", result |-> <<>>, flags |-> <<>>]

\* The requests GitService sends: commitChanges, getStatus, push, pull,
\* getHistory, revertChanges (ref 0: no ref given, n: the n-th commit)
GitCalls ==
  {[GitIdleReq EXCEPT !.action = "commit", !.message = m] : m \in Messages}
  \cup {[GitIdleReq EXCEPT !.action = a] : a \in {"status", "push", "pull"}}
  \cup {[GitIdleReq EXCEPT !.action = "history", !.path = p] : p \in GitPaths}
  \cup {[GitIdleReq EXCEPT !.action = "revert", !.path = v[1], !.ref = v[2]] :
          v \in Reverts}

\* res.status(200).json(result)
GitOk(r, result) == [r EXCEPT !.pc = "done", !.status = 200, !.result = result]

\* handleGitError(error): the code of the 500 response for an error code
handleGitError(code) ==
  IF code \in {"MissingNameError", "MissingEmailError"} THEN "CONFIG_ERROR"
  ELSE IF code = "HttpError401" THEN "AUTH_ERROR"
  ELSE IF code = "CheckoutConflictError" THEN "CONFLICT_ERROR"
  ELSE IF code = "" THEN "GIT_ERROR"
  ELSE code

\* catch (error): res.status(500).json(handleGitError(error))
GitFail(r, code) ==
  [r EXCEPT !.pc = "done", !.status = 500, !.code = handleGitError(code)]

\* GitService.handleRequest: the code of the GitError thrown for a response
\* that is not ok, error.code || response.status.toString()
handleRequest(r) == IF r.code # "" THEN r.code ELSE ToString(r.status)

\* GitService.push: the code of the GitError its caller catches
push(r) ==
  IF handleRequest(r) = "AUTH_ERROR" THEN "AUTH_ERROR" ELSE "PUSH_ERROR"

\* GitService.pull: the code of the GitError its caller catches
pull(r) ==
  IF handleRequest(r) = "AUTH_ERROR" THEN "AUTH_ERROR" ELSE "PULL_ERROR"

GitInit ==
  /\ gitReqs = [s \in GitSlots |-> GitIdleReq]
  /\ gitStarted = 0
  /\ workdir = Tree0 /\ index = Tree0
  /\ commits = << Commit0 >>
  /\ origin \in {[configured |-> FALSE, commits |-> <<>>],
                 [configured |-> TRUE, commits |-> << Commit0 >>],
                 [configured |-> TRUE, commits |-> << Commit0, Commit1 >>]}

GitIdle ==
  /\ gitReqs = <<>> /\ workdir = <<>> /\ index = <<>> /\ commits = <<>>
  /\ origin = <<>> /\ gitStarted = 0

\* A request arrives: handler() runs up to await getGitConfig()
GitRequest ==
  \E s \in GitSlots, call \in GitCalls :
    /\ s = gitStarted + 1 /\ gitStarted < MaxGitStarted
    /\ gitStarted' = gitStarted + 1
    /\ gitReqs' = [gitReqs EXCEPT ![s] = [call EXCEPT !.pc = "config"]]
    /\ UNCHANGED <<workdir, index, commits, origin, valVars, tplVars, fileVars, extVars>>

\* getGitConfig() resolves: the switch, up to the action's first await
GitConfig(s) ==
  LET r == gitReqs[s] IN
  /\ r.pc = "config"
  /\ gitReqs' = [gitReqs EXCEPT ![s] =
       IF r.action = "commit"
         THEN IF Len(r.message) < 1 THEN GitFail(r, "")
              ELSE [r EXCEPT !.pc = "add"]
       ELSE IF r.action = "status" THEN [r EXCEPT !.pc = "statusMatrix"]
       ELSE IF r.action = "push" THEN [r EXCEPT !.pc = "remoteUrl"]
       ELSE IF r.action = "pull" THEN [r EXCEPT !.pc = "pull"]
       ELSE IF r.action = "history" THEN [r EXCEPT !.pc = "log"]
       ELSE [r EXCEPT !.pc = "checkout"]]
  /\ UNCHANGED <<workdir, index, commits, origin, gitStarted, valVars, tplVars, fileVars, extVars>>

\* git.add({ filepath: "." }): every file of the working tree is staged
GitAdd(s) ==
  LET r == gitReqs[s] IN
  /\ r.pc = "add"
  /\ index' = [p \in DOMAIN index \cup DOMAIN workdir |->
                 IF p \in DOMAIN workdir THEN workdir[p] ELSE index[p]]
  /\ gitReqs' = [gitReqs EXCEPT ![s] = [r EXCEPT !.pc = "commit"]]
  /\ UNCHANGED <<workdir, commits, origin, gitStarted, valVars, tplVars, fileVars, extVars>>

\* git.commit({ message, author }): a commit of the index on top of HEAD
GitCommit(s) ==
  LET r == gitReqs[s] IN
  /\ r.pc = "commit"
  /\ commits' = Append(commits, [tree |-> index, message |-> r.message,
                                 author |-> getGitConfig.name])
  /\ gitReqs' = [gitReqs EXCEPT ![s] = GitOk(r, << Len(commits) + 1 >>)]
  /\ UNCHANGED <<workdir, index, origin, gitStarted, valVars, tplVars, fileVars, extVars>>

\* One row of git.statusMatrix: HEAD, WORKDIR and STAGE of a path
StatusRow(head, work, stage, p) ==
  LET h == IF p \in DOMAIN head THEN 1 ELSE 0
      w == IF p \notin DOMAIN work THEN 0
           ELSE IF p \in DOMAIN head /\ head[p] = work[p] THEN 1 ELSE 2
      st == IF p \notin DOMAIN stage THEN 0
            ELSE IF p \in DOMAIN head /\ head[p] = stage[p] THEN 1
            ELSE IF p \in DOMAIN work /\ work[p] = stage[p] THEN 2 ELSE 3
  IN <<h, w, st>>

statusMatrix(head, work, stage) ==
  [p \in DOMAIN head \cup DOMAIN work \cup DOMAIN stage |->
     StatusRow(head, work, stage, p)]

\* FileTree.loadFiles: the flags the file tree shows for each row of the matrix
statusMap(status) ==
  [p \in DOMAIN status |->
     [isNew      |-> status[p][1] = 0,
      isModified |-> status[p][2] = 2,
      isDeleted  |-> status[p][2] = 0 /\ status[p][1] = 1]]

\* git.statusMatrix({ fs, dir }), answered to the file tree
GitStatusMatrix(s) ==
  LET r      == gitReqs[s]
      status == statusMatrix(HeadTree, workdir, index)
  IN
  /\ r.pc = "statusMatrix"
  /\ gitReqs' = [gitReqs EXCEPT ![s] =
                   [GitOk(r, status) EXCEPT !.flags = statusMap(status)]]
  /\ UNCHANGED <<workdir, index, commits, origin, gitStarted, valVars, tplVars, fileVars, extVars>>

\* push: git.getConfig of remote.origin.url, "Remote origin not found" without
GitRemoteUrl(s) ==
  LET r == gitReqs[s] IN
  /\ r.pc = "remoteUrl"
  /\ gitReqs' = [gitReqs EXCEPT ![s] =
       IF origin.configured THEN [r EXCEPT !.pc = "push"] ELSE GitFail(r, "")]
  /\ UNCHANGED <<workdir, index, commits, origin, gitStarted, valVars, tplVars, fileVars, extVars>>

\* How a request to the remote ends: answered, no connection, or 401
GitNet == {"ok", "unreachable", "unauthorized"}

NetError(net) == IF net = "unauthorized" THEN "HttpError401" ELSE "ENOTFOUND"

\* git.push({ remote, ref }): accepted when the remote's history is a prefix
GitPush(s) ==
  \E net \in GitNet :
    LET r  == gitReqs[s]
        ff == IsPrefix(origin.commits, commits)
    IN /\ r.pc = "push"
       /\ gitReqs' = [gitReqs EXCEPT ![s] =
            IF net # "ok" THEN GitFail(r, NetError(net))
            ELSE IF ~ff THEN GitFail(r, "PushRejectedError")
            ELSE GitOk(r, <<>>)]
       /\ origin' = IF net = "ok" /\ ff THEN [origin EXCEPT !.commits = commits]
                    ELSE origin
       /\ UNCHANGED <<workdir, index, commits, gitStarted, valVars, tplVars, fileVars, extVars>>

\* The paths a checkout of tree to over tree from has to rewrite
Changed(from, to) ==
  {p \in DOMAIN to : p \notin DOMAIN from \/ from[p] # to[p]}

\* The working tree after the checkout of tree to over tree from
CheckedOut(work, from, to) ==
  [p \in DOMAIN work \cup DOMAIN to |->
     IF p \in Changed(from, to) THEN to[p] ELSE work[p]]

\* git.pull({ remote, ref, author }): fetch, fast-forward, checkout
GitPull(s) ==
  \E net \in GitNet :
    LET r      == gitReqs[s]
        theirs == origin.commits
        to     == theirs[Len(theirs)].tree
        dirty  == {p \in Changed(HeadTree, to) :
                     p \in DOMAIN workdir /\
                     (p \notin DOMAIN HeadTree \/ workdir[p] # HeadTree[p])}
    IN /\ r.pc = "pull"
       /\ IF ~origin.configured
            THEN /\ gitReqs' = [gitReqs EXCEPT ![s] = GitFail(r, "MissingParameterError")]
                 /\ UNCHANGED <<workdir, index, commits>>
          ELSE IF net # "ok"
            THEN /\ gitReqs' = [gitReqs EXCEPT ![s] = GitFail(r, NetError(net))]
                 /\ UNCHANGED <<workdir, index, commits>>
          ELSE IF IsPrefix(theirs, commits)
            THEN /\ gitReqs' = [gitReqs EXCEPT ![s] = GitOk(r, <<>>)]
                 /\ UNCHANGED <<workdir, index, commits>>
          ELSE IF ~IsPrefix(commits, theirs)
            THEN /\ gitReqs' = [gitReqs EXCEPT ![s] = GitFail(r, "MergeNotSupportedError")]
                 /\ UNCHANGED <<workdir, index, commits>>
          ELSE IF dirty # {}
            THEN /\ gitReqs' = [gitReqs EXCEPT ![s] = GitFail(r, "CheckoutConflictError")]
                 /\ commits' = theirs
                 /\ UNCHANGED <<workdir, index>>
          ELSE /\ gitReqs' = [gitReqs EXCEPT ![s] = GitOk(r, <<>>)]
               /\ commits' = theirs
               /\ workdir' = CheckedOut(workdir, HeadTree, to)
               /\ index' = CheckedOut(index, HeadTree, to)
       /\ UNCHANGED <<origin, gitStarted, valVars, tplVars, fileVars, extVars>>

\* The text a tree holds at a path, <<>> when it holds none
At(tree, p) == IF p \in DOMAIN tree THEN << tree[p] >> ELSE <<>>

\* git.log({ filepath }): the commits that change the path, newest first
RECURSIVE log(_, _, _)
log(history, n, p) ==
  IF n = 0 THEN <<>>
  ELSE LET before == IF n = 1 THEN <<>> ELSE At(history[n - 1].tree, p)
       IN (IF At(history[n].tree, p) # before THEN << n >> ELSE <<>>)
          \o log(history, n - 1, p)

GitLog(s) ==
  LET r == gitReqs[s] IN
  /\ r.pc = "log"
  /\ gitReqs' = [gitReqs EXCEPT ![s] = GitOk(r, log(commits, Len(commits), r.path))]
  /\ UNCHANGED <<workdir, index, commits, origin, gitStarted, valVars, tplVars, fileVars, extVars>>

\* A forced checkout of ref that is not limited to the path
GitCheckout_WholeTree(s) ==
  LET r    == gitReqs[s]
      tree == IF r.ref = 0 THEN HeadTree ELSE commits[r.ref].tree
      all(t) == [p \in DOMAIN t \cup DOMAIN tree |->
                   IF p \in DOMAIN tree THEN tree[p] ELSE t[p]]
  IN /\ r.pc = "checkout"
     /\ gitReqs' = [gitReqs EXCEPT ![s] = GitOk(r, <<>>)]
     /\ workdir' = all(workdir) /\ index' = all(index)
     /\ UNCHANGED <<commits, origin, gitStarted, valVars, tplVars, fileVars, extVars>>

\* git.checkout({ ref: ref || "HEAD", force: true, filepaths: [path] })
GitCheckout(s) ==
  LET r    == gitReqs[s]
      tree == IF r.ref = 0 THEN HeadTree ELSE commits[r.ref].tree
      put(t) == [p \in DOMAIN t \cup {r.path} |->
                   IF p = r.path THEN tree[p] ELSE t[p]]
  IN /\ r.pc = "checkout"
     /\ gitReqs' = [gitReqs EXCEPT ![s] = GitOk(r, <<>>)]
     /\ IF r.path \in DOMAIN tree
          THEN workdir' = put(workdir) /\ index' = put(index)
          ELSE UNCHANGED <<workdir, index>>
     /\ UNCHANGED <<commits, origin, gitStarted, valVars, tplVars, fileVars, extVars>>

\* The file endpoint's writeFile, seen from the repository: a content file
\* of the working tree gets a new text
EditFile ==
  \E e \in Edits :
    /\ workdir' = [q \in DOMAIN workdir \cup {e[1]} |->
                     IF q = e[1] THEN e[2] ELSE workdir[q]]
    /\ UNCHANGED <<gitReqs, index, commits, origin, gitStarted, valVars, tplVars, fileVars, extVars>>

(***************************************************************************)
(* The content endpoint of a generated site                                *)
(* (src/src/cli/commands/init.ts, CONTENT_API_PAGES)                       *)
(***************************************************************************)
\* JSON.stringify(value, null, 2), a line break with its indent as one space token
RECURSIVE Stringify(_), StringifyItems(_, _, _)
Stringify(v) ==
  CASE v.k = "string"  -> << S(v.cs) >>
    [] v.k = "number"  -> << N(v.n) >>
    [] v.k = "boolean" -> << L(v.cs) >>
    [] v.k = "null"    -> << L("null") >>
    [] v.k = "array"   ->
         IF v.items = <<>> THEN << P("["), P("]") >>
         ELSE << P("[") >> \o StringifyItems(<<>>, v.items, 1) \o << W, P("]") >>
    [] v.k = "object"  ->
         IF v.keys = <<>> THEN << P("{"), P("}") >>
         ELSE << P("{") >> \o StringifyItems(v.keys, v.items, 1) \o << W, P("}") >>
    [] OTHER -> <<>>

StringifyItems(keys, items, i) ==
  IF i > Len(items) THEN <<>>
  ELSE (IF i > 1 THEN << P(",") >> ELSE <<>>)
       \o << W >>
       \o (IF keys = <<>> THEN <<>> ELSE << S(keys[i]), P(":"), W >>)
       \o Stringify(items[i])
       \o StringifyItems(keys, items, i + 1)

\* The file names and the values the site's editor posts
TplFiles  == {"", "a.json", "b.json"}
TplValues == {JSONparse(t).v : t \in {TEmptyObj, TTitleX, TList, TNull, TTrue,
                                      TFalse, TZero, TEmptyStr}}

NoApiCall == [called |-> FALSE, method |-> "", filename |-> "", content |-> Undefined,
              status |-> 0, body |-> Undefined]

TplInit == contentFiles = <<>> /\ apiRes = NoApiCall

TplIdle == contentFiles = <<>> /\ apiRes = NoApiCall

\* POST /api/content { filename, content }: the required-field test, saveContent
ContentPost ==
  \E filename \in TplFiles, content \in TplValues :
    LET call == [NoApiCall EXCEPT !.called = TRUE, !.method = "POST",
                                  !.filename = filename, !.content = content]
    IN /\ IF ~Truthy(JStr(filename)) \/ ~Truthy(content)
            THEN /\ apiRes' = [call EXCEPT !.status = 400]
                 /\ UNCHANGED contentFiles
            ELSE /\ apiRes' = [call EXCEPT !.status = 200]
                 /\ contentFiles' =
                      [f \in DOMAIN contentFiles \cup {filename} |->
                         IF f = filename THEN Stringify(content) ELSE contentFiles[f]]
       /\ UNCHANGED <<valVars, fileVars, gitVars, extVars>>

\* GET /api/content?file=filename: getContent, JSON.parse of the file
ContentGet ==
  \E filename \in TplFiles \ {""} :
    LET call == [NoApiCall EXCEPT !.called = TRUE, !.method = "GET",
                                  !.filename = filename]
    IN /\ apiRes' = IF filename \in DOMAIN contentFiles
                         /\ JSONparse(contentFiles[filename]).ok
                      THEN [call EXCEPT !.status = 200,
                                        !.body = JSONparse(contentFiles[filename]).v]
                      ELSE [call EXCEPT !.status = 404]
       /\ UNCHANGED <<contentFiles, valVars, fileVars, gitVars, extVars>>

(***************************************************************************)
(* The editor: useEditorStore and the page's auto-save effect              *)
(***************************************************************************)
(* ---- src/src/store/editorStore.ts, src/unnamed/part_008 ---- *)

\* Asynchronous store actions started in one behaviour
MaxTasks == 3

TaskSlots == 1..MaxTasks

\* The files of the tree and the texts the user types
EdFiles == {"a.json", "b.json"}

EdTexts == {TTitleX, TEmptyObj, TOpen}

\* create(...): the state the store starts with
InitialStore ==
  [currentFile |-> "", content |-> TNothing, isLoading |-> FALSE,
   hasChanges |-> FALSE, error |-> ""]

IdleTask ==
  [kind |-> "", pc |-> "idle", file |-> "", content |-> TNothing, auto |-> FALSE,
   saved |-> FALSE, commit |-> "none", read |-> TNothing, ok |-> FALSE,
   contentAtEnd |-> TNothing, hasChangesAtEnd |-> FALSE]

\* How a request of GitService ends
Outcomes == {"ok", "failed"}

EdInit ==
  /\ version \in {"editorStore", "part_008"}
  /\ store = InitialStore
  /\ tasks = [t \in TaskSlots |-> IdleTask]
  /\ nTasks = 0
  /\ disk = [f \in EdFiles |-> IF f = "a.json" THEN TTitleX ELSE TEmptyObj]
  /\ timer = FALSE
  /\ baseline = [saved |-> TNothing, readFor |-> ""]

EdIdle ==
  /\ version = "" /\ store = <<>> /\ tasks = <<>> /\ nTasks = 0 /\ disk = <<>>
  /\ timer = FALSE /\ baseline = <<>>

\* EditorPage's useEffect on [hasChanges]: a change of hasChanges clears the
\* pending timeout and, when hasChanges became true, sets a new one
AutoSave(st) == IF st.hasChanges # store.hasChanges THEN st.hasChanges ELSE timer

\* A task that has been started and has not finished
InFlight(t) == tasks[t].pc \notin {"idle", "done"}

\* The record of a task that finished, with what the store shows at that moment
Finished(task, st, ok) ==
  [task EXCEPT !.pc = "done", !.ok = ok, !.contentAtEnd = st.content,
               !.hasChangesAtEnd = st.hasChanges]

\* setContent(content)
SetContent ==
  \E text \in EdTexts :
    /\ store' = [store EXCEPT !.content = text,
                              !.hasChanges = text # store.content,
                              !.error = IF version = "part_008" THEN "" ELSE @]
    /\ timer' = AutoSave(store')
    /\ UNCHANGED <<version, tasks, nTasks, disk, baseline, notEd>>

\* saveChanges(), up to the await of gitService.saveFile
saveChanges(auto) ==
  /\ nTasks < MaxTasks
  /\ store.currentFile # ""
  /\ store' = [store EXCEPT !.isLoading = TRUE, !.error = ""]
  /\ tasks' = [tasks EXCEPT ![nTasks + 1] =
       [IdleTask EXCEPT !.kind = "save", !.pc = "saveFile", !.auto = auto,
                        !.file = store.currentFile, !.content = store.content]]
  /\ nTasks' = nTasks + 1
  /\ UNCHANGED <<version, disk, baseline, notEd>>

\* The Save button
SaveChanges == saveChanges(FALSE) /\ UNCHANGED timer

\* The auto-save timeout fires: saveChanges()
TimerFires ==
  /\ timer /\ timer' = FALSE
  /\ IF store.currentFile = ""
       THEN UNCHANGED <<version, store, tasks, nTasks, disk, baseline, notEd>>
       ELSE saveChanges(TRUE)

\* gitService.saveFile answers; part_008 then clears hasChanges, editorStore.ts
\* goes on to gitService.commitChanges
SaveFileResolves(t) ==
  \E out \in Outcomes :
    LET task == tasks[t]
        ok   == out = "ok" /\ JSONparse(task.content).ok
        st   == IF ~ok
                  THEN [store EXCEPT !.error = "Failed to save", !.isLoading = FALSE]
                ELSE IF version = "part_008"
                  THEN [store EXCEPT !.hasChanges = FALSE, !.isLoading = FALSE]
                ELSE store
    IN /\ task.pc = "saveFile"
       /\ out = "ok" => JSONparse(task.content).ok
       /\ store' = st
       /\ tasks' = [tasks EXCEPT ![t] =
            IF ok /\ version = "editorStore"
              THEN [task EXCEPT !.pc = "commit", !.saved = TRUE]
              ELSE Finished([task EXCEPT !.saved = ok], st, ok)]
       /\ disk' = IF ok THEN [disk EXCEPT ![task.file] = task.content] ELSE disk
       /\ baseline' = IF ok /\ task.file = store.currentFile
                        THEN [baseline EXCEPT !.saved = task.content]
                        ELSE baseline
       /\ timer' = AutoSave(st)
       /\ UNCHANGED <<version, nTasks, notEd>>

\* commitAndPush(), up to the await of gitService.commitChanges
CommitAndPush ==
  /\ version = "part_008"
  /\ nTasks < MaxTasks
  /\ store.currentFile # ""
  /\ store' = [store EXCEPT !.isLoading = TRUE, !.error = ""]
  /\ tasks' = [tasks EXCEPT ![nTasks + 1] =
       [IdleTask EXCEPT !.kind = "commitAndPush", !.pc = "commit",
                        !.file = store.currentFile]]
  /\ nTasks' = nTasks + 1
  /\ UNCHANGED <<version, disk, timer, baseline, notEd>>

\* gitService.commitChanges answers: saveChanges of editorStore.ts clears
\* hasChanges, commitAndPush goes on to gitService.push
CommitResolves(t) ==
  \E out \in Outcomes :
    LET task == tasks[t]
        ok   == out = "ok"
        st   == IF ~ok
                  THEN [store EXCEPT !.error = "Failed to commit changes",
                                     !.isLoading = FALSE]
                ELSE IF task.kind = "save"
                  THEN [store EXCEPT !.hasChanges = FALSE, !.isLoading = FALSE]
                ELSE store
        done == [task EXCEPT !.commit = out]
    IN /\ task.pc = "commit"
       /\ store' = st
       /\ tasks' = [tasks EXCEPT ![t] =
            IF ok /\ task.kind = "commitAndPush"
              THEN [done EXCEPT !.pc = "push"]
              ELSE Finished(done, st, ok)]
       /\ timer' = AutoSave(st)
       /\ UNCHANGED <<version, nTasks, disk, baseline, notEd>>

\* gitService.push answers
PushResolves(t) ==
  \E out \in Outcomes :
    LET task == tasks[t]
        st   == [store EXCEPT !.isLoading = FALSE,
                              !.error = IF out = "ok" THEN @ ELSE "Failed to push changes"]
    IN /\ task.pc = "push"
       /\ store' = st
       /\ tasks' = [tasks EXCEPT ![t] = Finished(task, st, out = "ok")]
       /\ UNCHANGED <<version, nTasks, disk, timer, baseline, notEd>>

\* loadFile(path), up to the await of gitService.readFile
loadFile(path) ==
  /\ nTasks < MaxTasks
  /\ store' = [store EXCEPT !.isLoading = TRUE, !.error = ""]
  /\ tasks' = [tasks EXCEPT ![nTasks + 1] =
       [IdleTask EXCEPT !.kind = "load", !.pc = "read", !.file = path]]
  /\ nTasks' = nTasks + 1
  /\ UNCHANGED <<version, disk, timer, baseline, notEd>>

\* A file is selected in the tree
LoadFile == \E path \in EdFiles : loadFile(path)

\* discardChanges(): loadFile(currentFile) when a file is open
DiscardChanges == store.currentFile # "" /\ loadFile(store.currentFile)

\* gitService.readFile answers a loadFile or the reload of pullChanges
ReadResolves(t) ==
  \E out \in Outcomes :
    LET task == tasks[t]
        ok   == out = "ok"
        text == disk[task.file]
        st   == IF ok /\ task.kind = "load"
                  THEN [store EXCEPT !.currentFile = task.file, !.content = text,
                                     !.hasChanges = FALSE, !.isLoading = FALSE]
                ELSE IF ok
                  THEN [store EXCEPT !.content = text, !.hasChanges = FALSE,
                                     !.isLoading = FALSE]
                ELSE IF task.kind = "load" /\ version = "part_008"
                  THEN [store EXCEPT !.error = "Failed to load file",
                                     !.content = TNothing, !.hasChanges = FALSE,
                                     !.isLoading = FALSE]
                ELSE [store EXCEPT !.error = "Failed to read file",
                                   !.isLoading = FALSE]
    IN /\ task.pc = "read"
       /\ store' = st
       /\ tasks' = [tasks EXCEPT ![t] =
            Finished([task EXCEPT !.read = IF ok THEN text ELSE @], st, ok)]
       /\ baseline' =
            IF ok THEN [saved    |-> IF task.file = st.currentFile THEN text
                                     ELSE baseline.saved,
                        readFor  |-> task.file]
            ELSE baseline
       /\ timer' = AutoSave(st)
       /\ UNCHANGED <<version, nTasks, disk, notEd>>

\* pullChanges(), up to the await of gitService.pull
PullChanges ==
  /\ version = "part_008"
  /\ nTasks < MaxTasks
  /\ store' = [store EXCEPT !.isLoading = TRUE, !.error = ""]
  /\ tasks' = [tasks EXCEPT ![nTasks + 1] =
       [IdleTask EXCEPT !.kind = "pull", !.pc = "pull"]]
  /\ nTasks' = nTasks + 1
  /\ UNCHANGED <<version, disk, timer, baseline, notEd>>

\* What a pull brings: nothing new, or the remote's text of a.json
Pulled == {disk, [disk EXCEPT !["a.json"] = TEmptyObj]}

\* gitService.pull answers; with a file open pullChanges reads it again
PullResolves(t) ==
  \E out \in Outcomes, d \in Pulled :
    LET task == tasks[t]
        ok   == out = "ok"
        st   == IF ok /\ store.currentFile # "" THEN store
                ELSE [store EXCEPT !.isLoading = FALSE,
                                   !.error = IF ok THEN @ ELSE "Failed to pull changes"]
    IN /\ task.pc = "pull"
       /\ ~ok => d = disk
       /\ disk' = d
       /\ store' = st
       /\ tasks' = [tasks EXCEPT ![t] =
            IF ok /\ store.currentFile # ""
              THEN [task EXCEPT !.pc = "read", !.file = store.currentFile]
              ELSE Finished(task, st, ok)]
       /\ UNCHANGED <<version, nTasks, timer, baseline, notEd>>

(***************************************************************************)
(* The GitHub-backed Git endpoint                                          *)
(***************************************************************************)
(* ---- src/unnamed/part_001 ---- *)

\* Commit requests started in one behaviour
MaxGhStarted == 2

GhSlots == 1..MaxGhStarted

GhIdleReq ==
  [pc |-> "idle", message |-> "", currentCommit |-> 0, treeSha |-> 0,
   newCommit |-> 0, status |-> 0, code |-> "", netFailed |-> FALSE,
   moved |-> FALSE]

\* The repository on GitHub: one commit, the branch pointing at it
GhInit ==
  /\ ghReqs = [s \in GhSlots |-> GhIdleReq]
  /\ ghStarted = 0
  /\ ghCommits = << [parent |-> 0, message |-> "init"] >>
  /\ ghRef = 1

GhIdle == ghReqs = <<>> /\ ghStarted = 0 /\ ghCommits = <<>> /\ ghRef = 0

\* catch (error): 500 GIT_ERROR; the messages thrown here ("Failed to ...:
\* <statusText>") hold neither "authentication" nor "401", also after a 401
GhFail(r, net) ==
  [r EXCEPT !.pc = "done", !.netFailed = @ \/ net # "ok",
            !.status = 500, !.code = "GIT_ERROR"]

\* case "commit", up to the first fetch: getGitHubApi, CommitSchema.parse
GhCommitRequest ==
  \E s \in GhSlots, message \in Messages :
    LET r == [GhIdleReq EXCEPT !.message = message] IN
    /\ s = ghStarted + 1 /\ ghStarted < MaxGhStarted
    /\ ghStarted' = ghStarted + 1
    /\ ghReqs' = [ghReqs EXCEPT ![s] =
         IF Len(message) < 1 THEN GhFail(r, "ok")
         ELSE [r EXCEPT !.pc = "getCurrentCommit"]]
    /\ UNCHANGED <<ghCommits, ghRef, notGh>>

\* getCurrentCommit: GET git/refs/heads/{branch}
GhGetCurrentCommit(s) ==
  \E net \in GitNet :
    LET r == ghReqs[s] IN
    /\ r.pc = "getCurrentCommit"
    /\ ghReqs' = [ghReqs EXCEPT ![s] =
         IF net # "ok" THEN GhFail(r, net)
         ELSE [r EXCEPT !.pc = "createTree", !.currentCommit = ghRef]]
    /\ UNCHANGED <<ghStarted, ghCommits, ghRef, notGh>>

\* createTree(baseUrl, headers, [], currentCommit): the tree of the base, unchanged
GhCreateTree(s) ==
  \E net \in GitNet :
    LET r == ghReqs[s] IN
    /\ r.pc = "createTree"
    /\ ghReqs' = [ghReqs EXCEPT ![s] =
         IF net # "ok" THEN GhFail(r, net)
         ELSE [r EXCEPT !.pc = "createCommit", !.treeSha = r.currentCommit]]
    /\ UNCHANGED <<ghStarted, ghCommits, ghRef, notGh>>

\* createCommit: POST git/commits { message, tree, parents: [currentCommit] }
GhCreateCommit(s) ==
  \E net \in GitNet :
    LET r == ghReqs[s] IN
    /\ r.pc = "createCommit"
    /\ ghReqs' = [ghReqs EXCEPT ![s] =
         IF net # "ok" THEN GhFail(r, net)
         ELSE [r EXCEPT !.pc = "updateRef", !.newCommit = Len(ghCommits) + 1]]
    /\ ghCommits' = IF net # "ok" THEN ghCommits
                    ELSE Append(ghCommits, [parent |-> r.currentCommit,
                                            message |-> r.message])
    /\ UNCHANGED <<ghStarted, ghRef, notGh>>

\* Commit a is commit b or one of its ancestors
RECURSIVE IsAncestor(_, _)
IsAncestor(a, b) ==
  IF b = 0 THEN FALSE
  ELSE IF a = b THEN TRUE
  ELSE IsAncestor(a, ghCommits[b].parent)

\* updateRef: PATCH git/refs/heads/{branch} { sha } without force, which
\* GitHub accepts only as a fast-forward
GhUpdateRef(s) ==
  \E net \in GitNet :
    LET r  == ghReqs[s]
        ff == IsAncestor(ghRef, r.newCommit)
    IN /\ r.pc = "updateRef"
       /\ ghReqs' = [ghReqs EXCEPT ![s] =
            IF net # "ok" THEN GhFail(r, net)
            ELSE IF ~ff THEN GhFail(r, "ok")
            ELSE [r EXCEPT !.pc = "done", !.status = 200, !.moved = TRUE]]
       /\ ghRef' = IF net = "ok" /\ ff THEN r.newCommit ELSE ghRef
       /\ UNCHANGED <<ghStarted, ghCommits, notGh>>

(***************************************************************************)
(* The file-listing endpoint                                               *)
(***************************************************************************)
(* ---- src/src/pages/api/files.ts, src/src/pages/api/git/[action].ts ---- *)

\* The files a content directory may hold, as paths below the content root
LsUniverse ==
  { <<"a.json">>, <<".draft.json">>, <<"notes.txt">>,
    <<"posts", "a.json">>, <<"posts", "b.json">>,
    <<"posts", "2024", "b.json">>, <<"empty", "notes.txt">> }

\* Every entry name, in the order of String.localeCompare
Alphabet ==
  << ".draft.json", "2024", "a.json", "b.json", "empty", "notes.txt", "posts" >>

\* entry.name.startsWith(".")
Hidden(name) == name \in {".draft.json"}

\* isJsonFile(filename): filename.toLowerCase().endsWith(".json")
isJsonFile(name) == name \in {".draft.json", "a.json", "b.json"}

NoListing == [called |-> FALSE, nodes |-> <<>>]

LsInit ==
  /\ lsVersion \in {"files.ts", "[action].ts"}
  /\ lsFiles \in SUBSET LsUniverse
  /\ listing = NoListing

LsIdle == lsVersion = "" /\ lsFiles = {} /\ listing = NoListing

\* The files below directory dir
Below(dir) ==
  {p \in lsFiles : Len(p) > Len(dir) /\ SubSeq(p, 1, Len(dir)) = dir}

\* fs.readdir(dir, { withFileTypes: true }): the names, and entry.isDirectory()
Entries(dir) == {p[Len(dir) + 1] : p \in Below(dir)}

IsDirectory(dir, name) == Below(dir \o <<name>>) # {}

\* buildFileTree(dir) of files.ts sets path to entry.name and, where nothing
\* is listed, asks GitHub, which without configuration answers [];
\* buildFileTree(dir, basePath) of [action].ts sets path to
\* path.join(basePath, entry.name). Directories first, then files, by name.
RECURSIVE buildFileTree(_, _)
buildFileTree(dir, basePath) ==
  LET shown == {n \in Entries(dir) :
                  ~Hidden(n) /\ (IsDirectory(dir, n) \/ isJsonFile(n))}
      pathOf(n) == IF lsVersion = "files.ts" THEN <<n>> ELSE basePath \o <<n>>
      node(n) ==
        IF IsDirectory(dir, n)
          THEN [name |-> n, path |-> pathOf(n), type |-> "directory",
                children |-> buildFileTree(dir \o <<n>>, basePath \o <<n>>)]
          ELSE [name |-> n, path |-> pathOf(n), type |-> "file", children |-> <<>>]
      folders == SelectSeq(Alphabet, LAMBDA n :
                   n \in shown /\ IsDirectory(dir, n) /\ node(n).children # <<>>)
      leaves  == SelectSeq(Alphabet, LAMBDA n : n \in shown /\ ~IsDirectory(dir, n))
      order   == folders \o leaves
  IN [i \in 1..Len(order) |-> node(order[i])]

\* GET /api/files
ListFiles ==
  /\ ~listing.called
  /\ listing' = [called |-> TRUE, nodes |-> buildFileTree(<<>>, <<>>)]
  /\ UNCHANGED <<lsVersion, lsFiles, notLs>>

(***************************************************************************)
(* Specifications                                                          *)
(***************************************************************************)
ValInit == ValIdle /\ FileIdle /\ GitIdle /\ TplIdle /\ EdIdle /\ GhIdle /\ LsIdle

ValNext == RegisterSchema \/ ValidateJson

SpecValidate == ValInit /\ [][ValNext]_vars

Init == FileInit /\ ValIdle /\ GitIdle /\ TplIdle /\ EdIdle /\ GhIdle /\ LsIdle

Next ==
  \/ ReadFile
  \/ SaveFile
  \/ \E s \in Slots : LocalRead(s)
  \/ \E s \in Slots : LocalMkdir(s)
  \/ \E s \in Slots : LocalOpen(s)
  \/ \E s \in Slots : LocalWrite(s)
  \/ \E s \in Slots : GithubFetch(s)
  \/ \E s \in Slots : GithubGetSha(s)
  \/ \E s \in Slots : GithubPut(s)

Spec == Init /\ [][Next]_vars

GitSpecInit == GitInit /\ ValIdle /\ FileIdle /\ TplIdle /\ EdIdle /\ GhIdle /\ LsIdle

GitNext ==
  \/ GitRequest
  \/ EditFile
  \/ \E s \in GitSlots : GitConfig(s)
  \/ \E s \in GitSlots : GitAdd(s)
  \/ \E s \in GitSlots : GitCommit(s)
  \/ \E s \in GitSlots : GitStatusMatrix(s)
  \/ \E s \in GitSlots : GitRemoteUrl(s)
  \/ \E s \in GitSlots : GitPush(s)
  \/ \E s \in GitSlots : GitPull(s)
  \/ \E s \in GitSlots : GitLog(s)
  \/ \E s \in GitSlots : GitCheckout(s)

SpecGit == GitSpecInit /\ [][GitNext]_vars

TplSpecInit == TplInit /\ ValIdle /\ FileIdle /\ GitIdle /\ EdIdle /\ GhIdle /\ LsIdle

TplNext == ContentPost \/ ContentGet

SpecContentApi == TplSpecInit /\ [][TplNext]_vars

EdSpecInit == EdInit /\ ValIdle /\ FileIdle /\ GitIdle /\ TplIdle /\ GhIdle /\ LsIdle

EdNext ==
  \/ SetContent
  \/ SaveChanges
  \/ TimerFires
  \/ CommitAndPush
  \/ LoadFile
  \/ DiscardChanges
  \/ PullChanges
  \/ \E t \in TaskSlots : SaveFileResolves(t)
  \/ \E t \in TaskSlots : CommitResolves(t)
  \/ \E t \in TaskSlots : PushResolves(t)
  \/ \E t \in TaskSlots : ReadResolves(t)
  \/ \E t \in TaskSlots : PullResolves(t)

SpecEditor == EdSpecInit /\ [][EdNext]_vars

GhSpecInit == GhInit /\ ValIdle /\ FileIdle /\ GitIdle /\ TplIdle /\ EdIdle /\ LsIdle

GhNext ==
  \/ GhCommitRequest
  \/ \E s \in GhSlots : GhGetCurrentCommit(s)
  \/ \E s \in GhSlots : GhCreateTree(s)
  \/ \E s \in GhSlots : GhCreateCommit(s)
  \/ \E s \in GhSlots : GhUpdateRef(s)

SpecGithubGit == GhSpecInit /\ [][GhNext]_vars

LsSpecInit ==
  LsInit /\ ValIdle /\ FileIdle /\ GitIdle /\ TplIdle /\ EdIdle /\ GhIdle

LsNext == ListFiles

SpecFiles == LsSpecInit /\ [][LsNext]_vars

(***************************************************************************)
(* Properties of the validator                                             *)
(***************************************************************************)

\* C10: validateJson on a text that is not well-formed JSON fails with
\* "Invalid JSON", one issue that carries the parser's message at the empty
\* location, and the schema bound to the path is never run.
C10_InvalidJsonBeforeSchema ==
  (vres.called /\ ~JSONparse(vres.content).ok) =>
     /\ ~vres.out.ok
     /\ vres.out.message = "Invalid JSON"
     /\ vres.out.errors = << Issue("custom", <<>>, JSONparse(vres.content).msg) >>
     /\ ~vres.out.schemaRun

\* C10 happens: an unparseable text validated for a path with a bound schema
C10_Witness ==
  /\ vres.called
  /\ ~JSONparse(vres.content).ok
  /\ vres.path \in DOMAIN schemas
  /\ vres.out.message = "Invalid JSON"

\* The constraints a JSON Schema document declares that a value violates, as
\* <<code, location>> pairs in the order of the document: the type, the lower
\* and the upper limit of a value, then its items or declared properties
Limit(schema, key) == Get(schema, key)

LimitsViolated(schema, size, path, lowKey, highKey) ==
  (IF Has(schema, lowKey) /\ size < Limit(schema, lowKey).n
     THEN << <<"too_small", path>> >> ELSE <<>>)
  \o (IF Has(schema, highKey) /\ size > Limit(schema, highKey).n
        THEN << <<"too_big", path>> >> ELSE <<>>)

RECURSIVE Violations(_, _, _), ItemViolations(_, _, _, _), PropViolations(_, _, _, _)
Violations(schema, v, path) ==
  LET ty == Get(schema, "type") IN
  CASE ty = JStr("string") ->
         IF v.k # "string" THEN << <<"invalid_type", path>> >>
         ELSE LimitsViolated(schema, Len(v.cs), path, "minLength", "maxLength")
    [] ty \in {JStr("number"), JStr("integer")} ->
         IF v.k # "number" THEN << <<"invalid_type", path>> >>
         ELSE LimitsViolated(schema, v.n, path, "minimum", "maximum")
    [] ty = JStr("boolean") ->
         IF v.k # "boolean" THEN << <<"invalid_type", path>> >> ELSE <<>>
    [] ty = JStr("array") ->
         IF v.k # "array" THEN << <<"invalid_type", path>> >>
         ELSE LimitsViolated(schema, Len(v.items), path, "minItems", "maxItems")
              \o ItemViolations(schema, v, path, 1)
    [] ty = JStr("object") ->
         IF v.k # "object" THEN << <<"invalid_type", path>> >>
         ELSE PropViolations(schema, v, path, 1)
    [] OTHER -> <<>>

ItemViolations(schema, v, path, i) ==
  IF i > Len(v.items) \/ ~Has(schema, "items") THEN <<>>
  ELSE Violations(Get(schema, "items"), v.items[i], Append(path, PI(i - 1)))
       \o ItemViolations(schema, v, path, i + 1)

PropViolations(schema, v, path, i) ==
  LET props == Get(schema, "properties") IN
  IF ~Has(schema, "properties") \/ i > Len(props.keys) THEN <<>>
  ELSE LET key == props.keys[i]
           at  == Append(path, PK(key))
       IN (IF ~Has(v, key)
             THEN IF Includes(Get(schema, "required"), key)
                    THEN << <<"invalid_type", at>> >> ELSE <<>>
             ELSE Violations(props.items[i], Get(v, key), at))
          \o PropViolations(schema, v, path, i + 1)

\* The validated value of the last call and the document bound to its path
LastValue == JSONparse(vres.content).v
LastDoc   == JSONparse(vres.doc).v

SchemaChecked ==
  vres.called /\ JSONparse(vres.content).ok /\ vres.bound

C11_AnyJsonAccepted ==
  (apiRes.called /\ apiRes.method = "POST" /\ apiRes.filename # "") =>
     /\ apiRes.status = 200
     /\ JSONparse(contentFiles[apiRes.filename]).v = apiRes.content

(***************************************************************************)
(* Properties of the file endpoint                                         *)
(***************************************************************************)
Done(r) == r.pc = "done"

\* The request ended in the 400 the handler sends for a ValidationError
ValidationFailed(r) ==
  /\ r.kind = "POST" /\ Done(r) /\ r.status = 400
  /\ r.error \in {"Invalid JSON", "Schema validation failed"}

\* The location a request path names inside the content root
InRoot(full) == full = ContentDir \/ UnderContentDir(full)

\* C1: a write whose content fails validation touches no backend: no
\* directory is created, no file is written, no remote request is made.
C1_FailedValidationTouchesNothing ==
  \A s \in Slots :
    ValidationFailed(reqs[s]) =>
      ~reqs[s].wroteFs /\ reqs[s].remoteCalls = 0

\* C2: when the remote is configured and the remote write fails, the write
\* still succeeds and the local copy holds the new content.
C2_RemoteFailureSwallowed ==
  \A s \in Slots :
    LET r == reqs[s] IN
    (r.kind = "POST" /\ Done(r) /\ githubEnv
       /\ r.remoteCalls > 0 /\ ~r.remoteWritten) =>
      /\ r.status = 200
      /\ getFullPath(r.path) \in DOMAIN fs
      /\ fs[getFullPath(r.path)] = r.content

\* C3: two concurrent writes to one path are linearized: both complete
\* without a conflict error and the stored text is the content of the one
\* that arrived last.
C3_SamePathWritesLinearized ==
  \A s, t \in Slots :
    LET a == reqs[s]
        b == reqs[t]
    IN (/\ a.kind = "POST" /\ b.kind = "POST" /\ Done(a) /\ Done(b)
        /\ a.path = b.path /\ s < t
        /\ b.postsAtStart = 2 /\ b.doneAtStart = 0 /\ posts.started = 2
        /\ ~ValidationFailed(a) /\ ~ValidationFailed(b)
        /\ ~a.remoteFailed /\ ~b.remoteFailed)
       => /\ a.status = 200 /\ b.status = 200
          /\ deployment = "local" => fs[getFullPath(b.path)] = b.content
          /\ deployment = "github" => remote[b.path] = b.content

\* C4: a request whose path leaves the content root is refused with 403 and
\* no file-system call is ever made on a location outside the root.
C4_TraversalNeverReachesDisk ==
  /\ \A p \in fsCalls : InRoot(p)
  /\ \A s \in Slots :
       (Done(reqs[s]) /\ ~InRoot(getFullPath(reqs[s].path))) => reqs[s].status = 403

\* C5: a successful write followed, with no other writer, by a read of the
\* same path returns exactly the text written, whether or not either call
\* spells the path with a leading content/ or leading slashes.
Decorated(p) == {p, <<"/">> \o p, <<"content", "/">> \o p}

SameFile(x, y) == \E p \in ReqPaths : x \in Decorated(p) /\ y \in Decorated(p)

C5_RoundTrip ==
  \A s, t \in Slots :
    LET w == reqs[s]
        r == reqs[t]
    IN (/\ w.kind = "POST" /\ Done(w) /\ w.status = 200
        /\ r.kind = "GET" /\ Done(r)
        /\ w.postsAtStart = 1 /\ r.doneAtStart = 1 /\ r.postsAtEnd = 1
        /\ SameFile(w.raw, r.raw)
        /\ ~r.remoteFailed)
       => r.status = 200 /\ r.body = w.content

\* C6: a read serves the local copy when there is one and asks the remote
\* only when there is none and the remote is configured.
C6_LocalFirstRemoteFallback ==
  \A s \in Slots :
    LET r    == reqs[s]
        full == getFullPath(r.path)
    IN (r.kind = "GET" /\ Done(r) /\ posts.started = 0 /\ r.path # <<>>) =>
         /\ full \in DOMAIN fs => r.remoteCalls = 0 /\ r.body = fs[full]
         /\ (full \notin DOMAIN fs /\ full \notin dirs /\ githubEnv
               /\ r.path \in DOMAIN remote)
              => r.remoteCalls > 0 /\ (~r.remoteFailed => r.body = remote[r.path])

\* C7: a read that races a write never sees a partial or empty file: what it
\* read is a text the file held before a write or after one.
WholeTexts == {TTitleX, TitleSchemaDoc, TOpen} \cup ReqTexts

C7_ReadNeverSeesPartial ==
  \A s \in Slots :
    LET r == reqs[s] IN
    (r.kind = "GET" /\ Done(r) /\ deployment = "local" /\ r.status \in {200, 400}
       /\ r.path # <<>>)
      => r.seen \in WholeTexts

\* C9: the schema of a file is found by naming convention: with
\* content/schema/a.schema.json requiring a title, saving {} to a.json fails
\* with an issue at title and saving {"title":"x"} succeeds.
C9_SchemaByConvention ==
  \A s \in Slots :
    LET r == reqs[s] IN
    (r.kind = "POST" /\ Done(r) /\ deployment = "local"
       /\ getFullPath(r.path) = FileA
       /\ SchemaA \in DOMAIN fs /\ fs[SchemaA] = TitleSchemaDoc) =>
      /\ r.content = TEmptyObj =>
           /\ r.status = 400
           /\ \E i \in DOMAIN r.details : r.details[i].path = << PK("title") >>
      /\ r.content = TTitleX => r.status = 200


(***************************************************************************)
(* Properties of the Git endpoint                                          *)
(***************************************************************************)
Mutating(r) == r.action \in {"commit", "push", "pull", "revert"}

\* The request has called into the repository and has not responded yet
Working(r) ==
  r.pc \in {"add", "commit", "push", "pull", "checkout", "statusMatrix", "log"}

\* C13: every path of a status snapshot is classified as exactly one status:
\* in head with changed content -> modified; absent from head and present in
\* the working tree -> new (untracked or added) and not modified; in head and
\* removed from the working tree -> deleted; otherwise none of the three.
C13_OneStatusPerPath ==
  \A s \in GitSlots :
    LET r == gitReqs[s] IN
    (r.action = "status" /\ r.pc = "done" /\ r.status = 200) =>
      \A p \in DOMAIN r.result :
        LET head == r.result[p][1]
            work == r.result[p][2]
            f    == r.flags[p]
        IN /\ Cardinality({k \in {"isNew", "isModified", "isDeleted"} : f[k]}) <= 1
           /\ (head = 1 /\ work = 2) => f.isModified
           /\ (head = 0 /\ work # 0) => (f.isNew /\ ~f.isModified)
           /\ (head = 1 /\ work = 0) => f.isDeleted
           /\ (head = 1 /\ work = 1) => (~f.isNew /\ ~f.isModified /\ ~f.isDeleted)

\* The tree a revert request names: HEAD when it gives no ref
RevertTree(r) == IF r.ref = 0 THEN HeadTree ELSE commits[r.ref].tree

Blank(m) == m \in {"", " "}

\* C15: a commit with a blank message (empty or white space only) is refused
\* as a request error, not as a Git failure, and has no effect: it never
\* stages anything and no commit carries a blank message.
C15_BlankMessageRefused ==
  /\ \A s \in GitSlots :
       LET r == gitReqs[s] IN
       (r.action = "commit" /\ Blank(r.message)) =>
         /\ r.pc \notin {"add", "commit"}
         /\ r.pc = "done" => (r.status = 400 /\ r.code # "GIT_ERROR")
  /\ \A i \in 1..Len(commits) : ~Blank(commits[i].message)

\* The three causes of a failed remote read, as the messages readFromGitHub throws
RemoteCauses ==
  {"GitHub configuration is missing", "GitHub API error: Unauthorized",
   "File not found"}

\* A finished read that failed for one of the three causes
FailedFor(r) ==
  r.pc = "done" /\ r.kind = "GET" /\ Len(r.details) = 1
    /\ r.details[1].message \in RemoteCauses

\* C19: reads that failed for different causes (configuration missing, 401,
\* file absent) are answered with different status or error kind.
C19_CausesDistinguishable ==
  \A s, t \in Slots :
    (FailedFor(reqs[s]) /\ FailedFor(reqs[t])
       /\ reqs[s].details[1].message # reqs[t].details[1].message) =>
      <<reqs[s].status, reqs[s].error>> # <<reqs[t].status, reqs[t].error>>

\* The read found no file at the path, locally or in the repository
NotFound(r) ==
  \/ r.error = "File not found"
  \/ Len(r.details) = 1 /\ r.details[1].message = "File not found"

\* C20: a GET of a file that no backend has is answered 404 and a GET answered
\* 200 carries the content read; a POST answered 200 echoes the content sent,
\* and a POST whose validation failed is answered 400 with a list of issues.
C20_ReadWriteBoundary ==
  \A s \in Slots :
    LET r == reqs[s] IN
    Done(r) =>
      /\ (r.kind = "GET" /\ NotFound(r)) => r.status = 404
      /\ (r.kind = "GET" /\ r.status = 200) => r.body = r.seen
      /\ (r.kind = "POST" /\ r.status = 200) => r.body = r.content
      /\ ValidationFailed(r) => Len(r.details) >= 1

\* C21: a remote write reads the blob once and then sends one PUT; the PUT
\* carries the hash of the blob the branch holds exactly when the branch holds
\* the file, and a write that succeeded made exactly these two calls.
C21_ReadThenOnePut ==
  \A s \in Slots :
    LET r == reqs[s] IN
    /\ (deployment = "github" /\ r.pc = "put") =>
         /\ r.remoteCalls = 1
         /\ r.sha.has <=> r.path \in DOMAIN remote
         /\ r.sha.has => r.sha.of = remote[r.path]
    /\ (Done(r) /\ r.remoteWritten) => r.remoteCalls = 2

\* C22: the kind of a failure at the server is the kind the editor store sees:
\* a save refused by validation reaches the store as a ValidationError, and a
\* read of an absent file as something other than a generic read failure.
C22_KindReachesStore ==
  \A s \in Slots :
    LET r == reqs[s] IN
    /\ ValidationFailed(r) => saveFile(r).name = "ValidationError"
    /\ (Done(r) /\ r.kind = "GET" /\ r.status = 404) =>
         readFile(r).code # readFile([r EXCEPT !.status = 500]).code

\* The limit a caller of history asks for
MaxEntries == 1

\* Commit n of the branch changes the path
Touches(n, p) ==
  At(commits[n].tree, p) # (IF n = 1 THEN <<>> ELSE At(commits[n - 1].tree, p))

\* C23: a history answer lists only commits that touch the path, newest
\* first, and no more of them than the caller asked for.
C23_HistoryBounded ==
  \A s \in GitSlots :
    LET r == gitReqs[s] IN
    (r.action = "history" /\ r.pc = "done" /\ r.status = 200) =>
      /\ \A i \in 1..Len(r.result) :
           r.result[i] \in 1..Len(commits) /\ Touches(r.result[i], r.path)
      /\ \A i \in 1..(Len(r.result) - 1) : r.result[i] > r.result[i + 1]
      /\ Len(r.result) <= MaxEntries

\* C16: a commit with nothing to commit fails and creates no commit: the
\* branch never gets a commit whose tree equals the tree of its parent, and a
\* commit request answered 200 has added a commit that differs from its parent.
C16_NothingToCommit ==
  /\ \A i \in 2..Len(commits) : commits[i].tree # commits[i - 1].tree
  /\ \A s \in GitSlots :
       LET r == gitReqs[s] IN
       (r.action = "commit" /\ r.pc = "done" /\ r.status = 200
          /\ r.result[1] \in 2..Len(commits)) =>
         commits[r.result[1]].tree # commits[r.result[1] - 1].tree

\* C17: a push or pull of a repository without a configured remote or without
\* credentials fails with AUTH_ERROR or CONFIG_ERROR, and the editor receives
\* the same kind.
C17_NoCredentialsIsAuthOrConfig ==
  \A s \in GitSlots :
    LET r == gitReqs[s] IN
    (r.pc = "done" /\ r.action \in {"push", "pull"}
       /\ (~origin.configured \/ r.code = handleGitError("HttpError401"))) =>
      /\ r.status # 200
      /\ r.code \in {"AUTH_ERROR", "CONFIG_ERROR"}
      /\ (IF r.action = "push" THEN push(r) ELSE pull(r)) = r.code

\* C18: every failed Git request carries one of the four kinds, and the kind is
\* GIT_ERROR unless the error was a missing identity, a 401 or a checkout
\* conflict.
C18_FourKinds ==
  \A s \in GitSlots :
    LET r == gitReqs[s] IN
    (r.pc = "done" /\ r.status = 500) =>
      r.code \in {"CONFIG_ERROR", "AUTH_ERROR", "CONFLICT_ERROR", "GIT_ERROR"}

\* C8: working-tree-mutating Git operations are mutually exclusive: while a
\* commit, push, pull or revert is between its first and its last step, no
\* other mutating request and no status or history request is at work.
C8_GitMutatorsExclusive ==
  \A s, t \in GitSlots :
    (s # t /\ Mutating(gitReqs[s]) /\ Working(gitReqs[s]))
      => ~Working(gitReqs[t])

(* ---- the editor ---- *)

\* A save of the open file is under way
Saving == \E t \in TaskSlots : tasks[t].kind = "save" /\ InFlight(t)

\* No save of the content the store holds now was ever issued
NeverSent ==
  \A t \in TaskSlots : tasks[t].kind = "save" => tasks[t].content # store.content

\* C24: while a file is open with unsaved changes that no save was issued for,
\* a save is under way or the auto-save timeout is pending, and every
\* automatic save that succeeded went on to a commit.
C24_AutoSaveAndCommit ==
  /\ (store.currentFile # "" /\ store.hasChanges /\ NeverSent) =>
       (timer \/ Saving)
  /\ \A t \in TaskSlots :
       (tasks[t].auto /\ tasks[t].pc = "done" /\ tasks[t].saved) =>
         tasks[t].commit # "none"

\* No action of the store is under way
Quiet == \A t \in TaskSlots : ~InFlight(t)

\* Every action of the store that finished succeeded
AllWell == \A t \in TaskSlots : tasks[t].pc = "done" => tasks[t].ok

\* C25: with a file open, nothing in flight and no failed action, hasChanges
\* says whether the content differs from the text last loaded or saved for
\* the file.
C25_HasChangesIsDiff ==
  (store.currentFile # "" /\ Quiet /\ AllWell) =>
    (store.hasChanges <=> store.content # baseline.saved)

\* C26: when a save ends well although the content was edited after it was
\* sent, the edit is still marked unsaved.
C26_EditDuringSaveKept ==
  \A t \in TaskSlots :
    LET task == tasks[t] IN
    (task.kind = "save" /\ task.pc = "done" /\ task.ok
       /\ task.contentAtEnd # task.content) => task.hasChangesAtEnd

\* The last loadFile that was called
LastLoad ==
  CHOOSE t \in TaskSlots :
    /\ tasks[t].kind = "load"
    /\ \A u \in TaskSlots : tasks[u].kind = "load" => u <= t

\* C27: the content shown was read for the current file, and when every
\* loadFile has answered the current file is the one asked for last.
C27_ContentOfCurrentFile ==
  /\ baseline.readFor = store.currentFile
  /\ (Quiet /\ \E t \in TaskSlots : tasks[t].kind = "load") =>
       (tasks[LastLoad].ok => store.currentFile = tasks[LastLoad].file)

\* C28: isLoading is true exactly while an action of the store is in flight.
C28_LoadingIffInFlight ==
  store.isLoading <=> \E t \in TaskSlots : InFlight(t)

(* ---- the GitHub-backed Git endpoint ---- *)

\* Every commit request has been answered
GhQuiet == \A s \in GhSlots : ghReqs[s].pc \in {"idle", "done"}

\* C29: the branch moves only to a commit created by a request that built its
\* tree first, the commit's parent is the head the request read, a request
\* that failed did not move the branch, and once all requests whose calls were
\* all answered are done the branch contains every commit they created.
C29_RefAfterCommit ==
  \A s \in GhSlots :
    LET r == ghReqs[s] IN
    /\ r.moved => (r.treeSha # 0 /\ r.newCommit # 0 /\ r.status = 200)
    /\ r.newCommit # 0 => ghCommits[r.newCommit].parent = r.currentCommit
    /\ (r.pc = "done" /\ r.status # 200) => ~r.moved
    /\ (GhQuiet /\ r.newCommit # 0 /\ ~r.netFailed) => IsAncestor(r.newCommit, ghRef)

(* ---- the file listing ---- *)

\* A file the listing has to show: a JSON file with no hidden name on its path
Listable(p) ==
  isJsonFile(p[Len(p)]) /\ \A i \in 1..Len(p) : ~Hidden(p[i])

\* The paths of the file nodes of a listing, children included
RECURSIVE FilePaths(_)
FilePaths(nodes) ==
  IF nodes = <<>> THEN <<>>
  ELSE (IF Head(nodes).type = "file" THEN << Head(nodes).path >>
        ELSE FilePaths(Head(nodes).children)) \o FilePaths(Tail(nodes))

\* The paths of the rows of git.statusMatrix({ fs, dir: process.cwd() })
StatusKeys == {<<"content">> \o p : p \in lsFiles}

\* C30: the listing has exactly one file node for every JSON file that is not
\* hidden, with the file's path below the content root, and no other file
\* node; reading by a node's path reads that file and the status matrix has a
\* row under that path.
C30_OneNodePerJsonFile ==
  listing.called =>
    LET paths == FilePaths(listing.nodes) IN
    /\ \A p \in lsFiles :
         Listable(p) => Cardinality({i \in DOMAIN paths : paths[i] = p}) = 1
    /\ \A i \in DOMAIN paths :
         /\ paths[i] \in lsFiles /\ Listable(paths[i])
         /\ getFullPath(ensureContentPath(paths[i])) = ContentDir \o paths[i]
         /\ paths[i] \in StatusKeys

====
